---- MODULE Spec2Model ----
(***************************************************************************)
(* Model of db/db.go of cosmos-indexer: the block persistence transaction  *)
(* (IndexNewBlock), the reference-data deduplicators (indexMessageTypes,   *)
(* indexMessageEventTypes, indexMessageEventAttributeKeys), the failed     *)
(* block markers (UpsertFailedBlock, UpsertFailedEventBlock,               *)
(* GetFailedBlocks), the chain registry (GetDBChainID) and the gap tracker *)
(* (GetHighestIndexedBlock, GetFirstMissingBlockInRange,                   *)
(* GetHighestEventIndexedBlock, BlockEventsAlreadyIndexed).                *)
(*                                                                         *)
(* The relational store is a record of tables, each table a set of rows,   *)
(* each row a record whose fields are the column names the SQL of db.go    *)
(* uses.  Timestamps are naturals; 0 is the zero time                      *)
(* '0001-01-01T00:00:00.000Z'.  A surrogate key is the next value above    *)
(* the keys present in the table (the store's sequences only have to hand  *)
(* out fresh values; the gaps they leave are not modelled).                *)
(***************************************************************************)
EXTENDS Integers, Sequences, FiniteSets, TLC

VARIABLES store, last, nops, workers

vars == <<store, last, nops, workers>>

----------------------------------------------------------------------------
(* Bounds of the model *)

MaxHeight == 2
MaxTime == 2
MaxCode == 1
MaxOps == 3
MaxPersists == 2
MaxMarks == 2
MaxChainCalls == 2
MaxReads == 1

Heights == 1..MaxHeight
Times == 0..MaxTime
Codes == 0..MaxCode
\* The (chainID, name) pairs callers register: two chains, and the first
\* chain once more under another name.
ChainArgs == {<<"osmosis-1", "Osmosis">>, <<"juno-1", "Juno">>, <<"osmosis-1", "Osmo">>}
Hashes == {"h1", "h2"}
MessageTypeKeys == {"send", "vote"}
EventTypeKeys == {"transfer", "mint"}
AttributeKeys == {"amount", "sender"}

\* A fixed order of the natural keys, to enumerate a Go map in some order.
KeyUniverse == <<"h1", "h2", "send", "vote", "transfer", "mint", "amount", "sender">>

NoErr == "nil"

----------------------------------------------------------------------------
(* Helpers *)

Rank(k) == CHOOSE i \in 1..Len(KeyUniverse) : KeyUniverse[i] = k

Range(s) == {s[i] : i \in 1..Len(s)}

MaxOf(S) == IF S = {} THEN 0 ELSE CHOOSE x \in S : \A y \in S : y <= x

MinOf(S) == CHOOSE x \in S : \A y \in S : x <= y

\* The keys of a Go map in one of the orders `range` may produce them:
\* ascending or descending in KeyUniverse.
MapOrder(S, rev) ==
  LET n == Cardinality(S)
      asc == [i \in 1..n |-> CHOOSE k \in S :
                 Cardinality({j \in S : Rank(j) < Rank(k)}) = i - 1]
  IN [i \in 1..n |-> IF rev THEN asc[n + 1 - i] ELSE asc[i]]

RECURSIVE Flatten(_)
Flatten(ss) == IF ss = <<>> THEN <<>> ELSE Head(ss) \o Flatten(Tail(ss))

\* The number of events, and of attributes, of a sequence of messages.
UsedEventCount(msgs) ==
  Len(Flatten([j \in 1..Len(msgs) |-> msgs[j].MessageEvents]))

UsedAttributeCount(msgs) ==
  Len(Flatten([j \in 1..Len(msgs) |->
        Flatten([e \in 1..Len(msgs[j].MessageEvents) |->
                   msgs[j].MessageEvents[e].Attributes])]))

\* Postgres sequence-backed key: fresh above every key of the table.
NextID(rows) == MaxOf({r.id : r \in rows}) + 1

Project(r, cols) == [c \in cols |-> r[c]]

(***************************************************************************)
(* INSERT ... ON CONFLICT (conflictCols) DO UPDATE SET updateCols =        *)
(* excluded.updateCols RETURNING id, for a batch of rows (id = 0 in the    *)
(* batch).  Two rows of one batch with the same conflict key make Postgres *)
(* reject the statement ("ON CONFLICT DO UPDATE command cannot affect row  *)
(* a second time").  ids[i] is the key read back into batch[i].            *)
(***************************************************************************)
\* Faulty variant: the conflict clause is missing and every row of the batch
\* is inserted as a new row.
CreateOnConflictAlwaysInsert(rows, batch, conflictCols, updateCols) ==
  LET n == Len(batch)
      top == MaxOf({r.id : r \in rows})
  IN [rows |-> rows \cup {[batch[i] EXCEPT !.id = top + i] : i \in 1..n},
      ids |-> [i \in 1..n |-> top + i],
      err |-> NoErr]

\* Faulty variant: a stored row that collides with a row of the batch is
\* deleted and the row of the batch is inserted under a new key.
CreateOnConflictReplacing(rows, batch, conflictCols, updateCols) ==
  LET n == Len(batch)
      key(r) == Project(r, conflictCols)
      top == MaxOf({r.id : r \in rows})
  IN [rows |-> {r \in rows : ~\E i \in 1..n : key(batch[i]) = key(r)}
                 \cup {[batch[i] EXCEPT !.id = top + i] : i \in 1..n},
      ids |-> [i \in 1..n |-> top + i],
      err |-> NoErr]

CreateOnConflict(rows, batch, conflictCols, updateCols) ==
  LET n == Len(batch)
      key(r) == Project(r, conflictCols)
      dup == \E i, j \in 1..n : i < j /\ key(batch[i]) = key(batch[j])
      isNew(i) == ~\E r \in rows : key(r) = key(batch[i])
      idOf(i) == IF isNew(i)
                 THEN MaxOf({r.id : r \in rows}) + Cardinality({j \in 1..i : isNew(j)})
                 ELSE (CHOOSE r \in rows : key(r) = key(batch[i])).id
      refresh(r) == IF \E i \in 1..n : key(batch[i]) = key(r)
                    THEN LET b == batch[CHOOSE i \in 1..n : key(batch[i]) = key(r)]
                         IN [c \in DOMAIN r |-> IF c \in updateCols THEN b[c] ELSE r[c]]
                    ELSE r
  IN IF dup
     THEN [rows |-> rows, ids |-> [i \in 1..n |-> 0], err |-> "conflict_twice"]
     ELSE [rows |-> {refresh(r) : r \in rows}
                    \cup {[batch[i] EXCEPT !.id = idOf(i)] : i \in {j \in 1..n : isNew(j)}},
           ids |-> [i \in 1..n |-> idOf(i)],
           err |-> NoErr]

----------------------------------------------------------------------------
(* The store *)

EmptyStore ==
  [chains |-> {}, blocks |-> {}, txes |-> {},
   message_types |-> {}, message_event_types |-> {},
   message_event_attribute_keys |-> {},
   messages |-> {}, message_events |-> {}, message_event_attributes |-> {},
   failed_blocks |-> {}, failed_event_blocks |-> {},
   denoms |-> {}, denom_units |-> {}, ibc_denoms |-> {}]

\* The columns of failed_blocks / failed_event_blocks (models.FailedBlock:
\* the marker's chain reference is the column the DELETE of IndexNewBlock names).
FailedBlockColumns == {"id", "height", "blockchain_id"}

\* The store enforces the foreign keys of the schema: a reference column
\* must hold the key of a row of the referenced table.
ForeignKeyHolds(ids, rows) == \A id \in ids : \E r \in rows : r.id = id

\* chains.chain_id is unique: inserting a second row with the same chain_id
\* is rejected by the store.
ChainUniqueViolation(rows, chainID) == \E r \in rows : r.chain_id = chainID

\* Faulty variant: the statements run outside a transaction and their
\* writes stay when the function returns an error.
TransactionKeepsWrites(pre, res) == res

\* db.Transaction: commit the function's writes when it returns nil, roll
\* every write back when it returns an error.
Transaction(pre, res) ==
  IF res.err = NoErr THEN res ELSE [res EXCEPT !.db = pre]

----------------------------------------------------------------------------
(* Reference-data deduplicators: db.go 456-547 *)

\* Faulty variant: a key the map lacks gets the ID of some entry of the map.
LookupWithDefault(full, k) ==
  IF k \in DOMAIN full THEN full[k]
  ELSE IF DOMAIN full = {} THEN 0
  ELSE MaxOf({full[q] : q \in DOMAIN full})

\* The map lookup of Go: the zero value (ID 0) for a key the map lacks.
Lookup(full, k) == IF k \in DOMAIN full THEN full[k] ELSE 0

\* maps: the per-transaction maps (key -> natural value) in input order.
\* Returns the table, the block-wide map key -> ID, and the error.
MergeMaps(maps) ==
  LET keys == UNION {DOMAIN maps[i] : i \in 1..Len(maps)}
  IN [k \in keys |->
        maps[MaxOf({i \in 1..Len(maps) : k \in DOMAIN maps[i]})][k]]

\* Faulty variant: the keys read back are attached to the values of the
\* batch in the opposite order.
indexReferenceMisread(rows, maps, col, rev) ==
  LET full == MergeMaps(maps)
      order == MapOrder(DOMAIN full, rev)
      n == Len(order)
      slice == [i \in 1..n |-> [c \in {"id", col} |->
                  IF c = "id" THEN 0 ELSE full[order[i]]]]
      res == CreateOnConflict(rows, slice, {col}, {col})
      values == {slice[i][col] : i \in 1..n}
      idOfValue(v) == res.ids[n + 1 - (CHOOSE i \in 1..n : slice[i][col] = v)]
  IN IF n = 0 \/ res.err # NoErr
     THEN [rows |-> rows, map |-> <<>>, err |-> IF n = 0 THEN NoErr ELSE res.err]
     ELSE [rows |-> res.rows,
           map |-> [k \in DOMAIN full \cup values |->
                      IF k \in values THEN idOfValue(k) ELSE 0],
           err |-> NoErr]

\* One deduplicator: merge the maps, upsert the values on their natural
\* key, read the keys back and re-key the map by the values (db.go 456-484).
indexReference(rows, maps, col, rev) ==
  LET full == MergeMaps(maps)
      order == MapOrder(DOMAIN full, rev)
      slice == [i \in 1..Len(order) |-> [c \in {"id", col} |->
                  IF c = "id" THEN 0 ELSE full[order[i]]]]
      res == CreateOnConflict(rows, slice, {col}, {col})
      values == {slice[i][col] : i \in 1..Len(slice)}
      idOfValue(v) == res.ids[CHOOSE i \in 1..Len(slice) : slice[i][col] = v]
  IN IF Len(slice) = 0
     THEN [rows |-> rows, map |-> <<>>, err |-> NoErr]
     ELSE IF res.err # NoErr
     THEN [rows |-> rows, map |-> <<>>, err |-> res.err]
     ELSE [rows |-> res.rows,
           map |-> [k \in DOMAIN full \cup values |->
                      IF k \in values THEN idOfValue(k) ELSE 0],
           err |-> NoErr]

indexMessageTypes(rows, txs, rev) ==
  indexReference(rows, [i \in 1..Len(txs) |-> txs[i].UniqueMessageTypes],
                 "message_type", rev)

indexMessageEventTypes(rows, txs, rev) ==
  indexReference(rows, [i \in 1..Len(txs) |-> txs[i].UniqueMessageEventTypes],
                 "type", rev)

indexMessageEventAttributeKeys(rows, txs, rev) ==
  indexReference(rows, [i \in 1..Len(txs) |-> txs[i].UniqueMessageAttributeKeys],
                 "key", rev)

----------------------------------------------------------------------------
(* Block persistence transaction: db.go 221-454 *)

NoFault == [stage |-> "none", tx |-> 0]

\* Faulty variant: the DELETE matches no row.
DeleteFailedBlockOfNone(db, blockHeight, dbChainID) == db

\* Faulty variant: the DELETE names the height only and removes the
\* markers of every chain at that height.
DeleteFailedBlockAnyChain(db, blockHeight, dbChainID) ==
  [db EXCEPT !.failed_blocks = {r \in @ : r.height # blockHeight}]

\* remove from failed blocks if exists (db.go 227-232)
DeleteFailedBlock(db, blockHeight, dbChainID) ==
  [db EXCEPT !.failed_blocks =
     {r \in @ : ~(r.height = blockHeight /\ r.blockchain_id = dbChainID)}]

\* blocks has a unique index on (chain_id, height): inserting a second row
\* for the pair is rejected.
BlockUniqueViolation(rows, blockHeight, dbChainID) ==
  \E r \in rows : r.height = blockHeight /\ r.chain_id = dbChainID

\* The SELECT of FirstOrCreate: Where(Block{Height, ChainID}) is a struct
\* condition, which uses the non-zero fields only (db.go 237); the key of
\* the first row found, or 0.
SelectBlock(db, blockHeight, dbChainID) ==
  LET found == {r \in db.blocks :
                  /\ (blockHeight # 0 => r.height = blockHeight)
                  /\ (dbChainID # 0 => r.chain_id = dbChainID)}
  IN IF found = {} THEN 0 ELSE MinOf({r.id : r \in found})

\* The UPDATE of FirstOrCreate when a row was found:
\* Assign(Block{TxIndexed: true, TimeStamp}) is a struct assignment, which
\* uses the non-zero fields only (db.go 238).
AssignBlock(db, id, blockTime) ==
  [db EXCEPT !.blocks =
     {IF r.id = id
      THEN [r EXCEPT !.tx_indexed = TRUE,
                     !.time_stamp = IF blockTime # 0 THEN blockTime ELSE @]
      ELSE r : r \in @}]

\* The INSERT of FirstOrCreate when no row was found: blockOnly with the
\* assigned fields (db.go 235).
CreateBlock(db, blockHeight, blockTime, dbChainID) ==
  IF BlockUniqueViolation(db.blocks, blockHeight, dbChainID)
  THEN [db |-> db, ID |-> 0, err |-> "unique_violation"]
  ELSE LET id == NextID(db.blocks)
       IN [db |-> [db EXCEPT !.blocks = @ \cup
                     {[id |-> id, height |-> blockHeight, chain_id |-> dbChainID,
                       time_stamp |-> blockTime, tx_indexed |-> TRUE,
                       block_events_indexed |-> FALSE]}],
           ID |-> id, err |-> NoErr]

\* Where(...).Assign(...).FirstOrCreate(&blockOnly) (db.go 235-242): the
\* SELECT, then the UPDATE of the row found or the INSERT of a new row.
FirstOrCreateBlock(db, blockHeight, blockTime, dbChainID) ==
  LET id == SelectBlock(db, blockHeight, dbChainID)
  IN IF id # 0
     THEN [db |-> AssignBlock(db, id, blockTime), ID |-> id, err |-> NoErr]
     ELSE CreateBlock(db, blockHeight, blockTime, dbChainID)

\* Faulty variant: the first transaction of the input with a hash is kept.
UniqueTxesFirstSeen(txs) ==
  [h \in {txs[i].Tx.Hash : i \in 1..Len(txs)} |->
     MinOf({i \in 1..Len(txs) : txs[i].Tx.Hash = h})]

\* uniqueTxes: hash -> index of the last transaction of the input with it
\* (db.go 245-249).
UniqueTxes(txs) ==
  [h \in {txs[i].Tx.Hash : i \in 1..Len(txs)} |->
     MaxOf({i \in 1..Len(txs) : txs[i].Tx.Hash = h})]

\* Faulty variant: a stored transaction with a hash of the batch is replaced
\* by a new row under a new key.
UpsertTxesReplacingRows(db, txs, blockID, rev) ==
  LET unique == UniqueTxes(txs)
      order == MapOrder(DOMAIN unique, rev)
      top == MaxOf({r.id : r \in db.txes})
      row(i) == LET tx == txs[unique[order[i]]].Tx
                IN [id |-> top + i, hash |-> tx.Hash, code |-> tx.Code,
                    block_id |-> blockID,
                    signer_address_id |-> tx.SignerAddressID]
  IN [db |-> [db EXCEPT !.txes = {r \in @ : r.hash \notin DOMAIN unique}
                                   \cup {row(i) : i \in 1..Len(order)}],
      ids |-> [h \in DOMAIN unique |->
                 top + (CHOOSE i \in 1..Len(order) : order[i] = h)],
      err |-> NoErr]

\* txesSlice and its batch upsert (db.go 251-270); ids maps each hash to
\* the key read back.
TxesSlice(txs, blockID, rev) ==
  LET unique == UniqueTxes(txs)
      order == MapOrder(DOMAIN unique, rev)
  IN [i \in 1..Len(order) |->
        LET tx == txs[unique[order[i]]].Tx
        IN [id |-> 0, hash |-> tx.Hash, code |-> tx.Code,
            block_id |-> blockID,
            signer_address_id |-> tx.SignerAddressID]]

\* Faulty variant: the keys of the transactions are not read back after
\* the batch upsert.
UpsertTxesWithoutReadBack(db, txs, blockID, rev) ==
  LET unique == UniqueTxes(txs)
      txesSlice == TxesSlice(txs, blockID, rev)
      res == CreateOnConflict(db.txes, txesSlice, {"hash"},
                              {"code", "block_id", "signer_address_id"})
  IN IF Len(txesSlice) = 0
     THEN [db |-> db, ids |-> <<>>, err |-> NoErr]
     ELSE [db |-> [db EXCEPT !.txes = res.rows],
           ids |-> [h \in DOMAIN unique |-> 0],
           err |-> res.err]

UpsertTxes(db, txs, blockID, rev) ==
  LET unique == UniqueTxes(txs)
      order == MapOrder(DOMAIN unique, rev)
      txesSlice == TxesSlice(txs, blockID, rev)
      res == CreateOnConflict(db.txes, txesSlice, {"hash"},
                              {"code", "block_id", "signer_address_id"})
  IN IF Len(txesSlice) = 0
     THEN [db |-> db, ids |-> <<>>, err |-> NoErr]
     ELSE [db |-> [db EXCEPT !.txes = res.rows],
           ids |-> [h \in DOMAIN unique |->
                      res.ids[CHOOSE i \in 1..Len(order) : order[i] = h]],
           err |-> res.err]

\* A batch of rows violates a foreign key when a reference column of one of
\* them holds no key of the referenced table.
BatchKeysHold(batch, col, rows) ==
  ForeignKeyHolds({batch[i][col] : i \in 1..Len(batch)}, rows)

\* The messages of one transaction of the input (db.go 295-323): txID is
\* uniqueTxes[tx.Tx.Hash].ID, mt the block-wide map of message types.
MessagesSlice(tx, txID, mt) ==
  LET msgs == tx.Messages
  IN [j \in 1..Len(msgs) |->
        [id |-> 0, tx_id |-> txID,
         message_index |-> msgs[j].MessageIndex,
         message_type_id |-> Lookup(mt, msgs[j].MessageType)]]

UpsertMessages(db, tx, txID, mt) ==
  LET messagesSlice == MessagesSlice(tx, txID, mt)
      res == CreateOnConflict(db.messages, messagesSlice,
                              {"tx_id", "message_index"}, {"message_type_id"})
  IN IF Len(messagesSlice) = 0
     THEN [db |-> db, ids |-> <<>>, err |-> NoErr]
     ELSE IF ~BatchKeysHold(messagesSlice, "message_type_id", db.message_types)
     THEN [db |-> db, ids |-> <<>>, err |-> "fk_violation"]
     ELSE [db |-> [db EXCEPT !.messages = res.rows], ids |-> res.ids, err |-> res.err]

\* The events of all messages of the transaction, in one batch (db.go
\* 325-343); mids[j] is the key read back into message j.  ids[j][e] is the
\* key read back into event e of message j.
MessagesEventsPerMessage(tx, mids, et) ==
  LET msgs == tx.Messages
  IN [j \in 1..Len(msgs) |->
        [e \in 1..Len(msgs[j].MessageEvents) |->
           [id |-> 0, message_id |-> mids[j],
            index |-> msgs[j].MessageEvents[e].Index,
            message_event_type_id |->
              Lookup(et, msgs[j].MessageEvents[e].Type)]]]

UpsertMessageEvents(db, tx, mids, et) ==
  LET msgs == tx.Messages
      perMessage == MessagesEventsPerMessage(tx, mids, et)
      messagesEventsSlice == Flatten(perMessage)
      res == CreateOnConflict(db.message_events, messagesEventsSlice,
                              {"message_id", "index"}, {"message_event_type_id"})
      offset(j) == Len(Flatten(SubSeq(perMessage, 1, j - 1)))
  IN IF Len(messagesEventsSlice) = 0
     THEN [db |-> db, ids |-> [j \in 1..Len(msgs) |-> <<>>], err |-> NoErr]
     ELSE IF ~BatchKeysHold(messagesEventsSlice, "message_event_type_id",
                            db.message_event_types)
     THEN [db |-> db, ids |-> <<>>, err |-> "fk_violation"]
     ELSE [db |-> [db EXCEPT !.message_events = res.rows],
           ids |-> [j \in 1..Len(msgs) |->
                      [e \in 1..Len(msgs[j].MessageEvents) |-> res.ids[offset(j) + e]]],
           err |-> res.err]

\* The attributes of all events of the transaction, in one batch (db.go
\* 345-365); eids[j][e] is the key read back into event e of message j.
MessagesEventsAttributesSlice(tx, eids, ak) ==
  LET msgs == tx.Messages
      perEvent == [j \in 1..Len(msgs) |->
                     Flatten([e \in 1..Len(msgs[j].MessageEvents) |->
                        LET attrs == msgs[j].MessageEvents[e].Attributes
                        IN [a \in 1..Len(attrs) |->
                              [id |-> 0, message_event_id |-> eids[j][e],
                               index |-> attrs[a].Index,
                               value |-> attrs[a].Value,
                               message_event_attribute_key_id |->
                                 Lookup(ak, attrs[a].Key)]]])]
  IN Flatten(perEvent)

UpsertMessageEventAttributes(db, tx, eids, ak) ==
  LET messagesEventsAttributesSlice == MessagesEventsAttributesSlice(tx, eids, ak)
      res == CreateOnConflict(db.message_event_attributes,
                              messagesEventsAttributesSlice,
                              {"message_event_id", "index"},
                              {"value", "message_event_attribute_key_id"})
  IN IF Len(messagesEventsAttributesSlice) = 0
     THEN [db |-> db, err |-> NoErr]
     ELSE IF ~BatchKeysHold(messagesEventsAttributesSlice,
                            "message_event_attribute_key_id",
                            db.message_event_attribute_keys)
     THEN [db |-> db, err |-> "fk_violation"]
     ELSE [db |-> [db EXCEPT !.message_event_attributes = res.rows], err |-> res.err]

\* The store statements of IndexNewBlock in the order the function issues
\* them: six for the block, then three for every transaction of the input
\* (for _, tx := range txs, db.go 293).
Statements(txs) ==
  <<[stage |-> "delete", tx |-> 0], [stage |-> "block", tx |-> 0],
    [stage |-> "txes", tx |-> 0], [stage |-> "message_types", tx |-> 0],
    [stage |-> "message_event_types", tx |-> 0],
    [stage |-> "message_event_attribute_keys", tx |-> 0]>>
  \o Flatten([i \in 1..Len(txs) |->
       <<[stage |-> "messages", tx |-> i], [stage |-> "events", tx |-> i],
         [stage |-> "attributes", tx |-> i]>>])

\* Whether the function issues the statement at all: an empty batch is
\* skipped (len(...) != 0, db.go 258, 315, 335, 357, 469, 500, 532).
Issued(ctx, in, st) ==
  CASE st.stage = "txes" -> Len(in.txs) # 0
    [] st.stage = "message_types" ->
         \E i \in 1..Len(in.txs) : DOMAIN in.txs[i].UniqueMessageTypes # {}
    [] st.stage = "message_event_types" ->
         \E i \in 1..Len(in.txs) : DOMAIN in.txs[i].UniqueMessageEventTypes # {}
    [] st.stage = "message_event_attribute_keys" ->
         \E i \in 1..Len(in.txs) : DOMAIN in.txs[i].UniqueMessageAttributeKeys # {}
    [] st.stage = "messages" -> Len(in.txs[st.tx].Messages) # 0
    [] st.stage = "events" -> UsedEventCount(in.txs[st.tx].Messages) # 0
    [] st.stage = "attributes" -> UsedAttributeCount(in.txs[st.tx].Messages) # 0
    [] OTHER -> TRUE

\* One statement applied to the context of the running function: the
\* writes so far (db), the error, and the keys read back so far.
Statement(ctx, in, st) ==
  CASE st.stage = "delete" ->
         [ctx EXCEPT !.db = DeleteFailedBlock(ctx.db, in.blockHeight, in.dbChainID)]
    [] st.stage = "block" ->
         LET b == FirstOrCreateBlock(ctx.db, in.blockHeight, in.blockTime, in.dbChainID)
         IN [ctx EXCEPT !.db = b.db, !.blockID = b.ID, !.err = b.err]
    [] st.stage = "txes" ->
         LET t == UpsertTxes(ctx.db, in.txs, ctx.blockID, in.rev)
         IN [ctx EXCEPT !.db = t.db, !.txIDs = t.ids, !.err = t.err]
    [] st.stage = "message_types" ->
         LET r == indexMessageTypes(ctx.db.message_types, in.txs, in.rev)
         IN [ctx EXCEPT !.db.message_types = r.rows, !.mt = r.map, !.err = r.err]
    [] st.stage = "message_event_types" ->
         LET r == indexMessageEventTypes(ctx.db.message_event_types, in.txs, in.rev)
         IN [ctx EXCEPT !.db.message_event_types = r.rows, !.et = r.map, !.err = r.err]
    [] st.stage = "message_event_attribute_keys" ->
         LET r == indexMessageEventAttributeKeys(
                    ctx.db.message_event_attribute_keys, in.txs, in.rev)
         IN [ctx EXCEPT !.db.message_event_attribute_keys = r.rows,
                        !.ak = r.map, !.err = r.err]
    [] st.stage = "messages" ->
         LET r == UpsertMessages(ctx.db, in.txs[st.tx],
                                 ctx.txIDs[in.txs[st.tx].Tx.Hash], ctx.mt)
         IN [ctx EXCEPT !.db = r.db, !.mids = r.ids, !.err = r.err]
    [] st.stage = "events" ->
         LET r == UpsertMessageEvents(ctx.db, in.txs[st.tx], ctx.mids, ctx.et)
         IN [ctx EXCEPT !.db = r.db, !.eids = r.ids, !.err = r.err]
    [] st.stage = "attributes" ->
         LET r == UpsertMessageEventAttributes(ctx.db, in.txs[st.tx], ctx.eids, ctx.ak)
         IN [ctx EXCEPT !.db = r.db, !.err = r.err]

\* The statements from the k-th on; the function returns at the first
\* error.  A statement the fault names fails with an error of the store
\* itself (connection loss, timeout) when it is issued.
RECURSIVE RunStatements(_, _, _, _)
RunStatements(ctx, in, stmts, k) ==
  IF k > Len(stmts) \/ ctx.err # NoErr
  THEN ctx
  ELSE IF in.fault = stmts[k] /\ Issued(ctx, in, stmts[k])
  THEN [ctx EXCEPT !.err = "store_error"]
  ELSE CHOOSE out \in {RunStatements(next, in, stmts, k + 1) :
                         next \in {Statement(ctx, in, stmts[k])}} : TRUE

\* The function IndexNewBlock hands to db.Transaction (db.go 225-453).
IndexNewBlockBody(db, blockHeight, blockTime, txs, dbChainID, rev, fault) ==
  RunStatements(
    [db |-> db, err |-> NoErr, blockID |-> 0, txIDs |-> <<>>,
     mt |-> <<>>, et |-> <<>>, ak |-> <<>>, mids |-> <<>>, eids |-> <<>>],
    [blockHeight |-> blockHeight, blockTime |-> blockTime, txs |-> txs,
     dbChainID |-> dbChainID, rev |-> rev, fault |-> fault],
    Statements(txs), 1)

IndexNewBlock(db, blockHeight, blockTime, txs, dbChainID, rev, fault) ==
  CHOOSE out \in {Transaction(db, res) :
                    res \in {IndexNewBlockBody(db, blockHeight, blockTime, txs,
                                               dbChainID, rev, fault)}} : TRUE

----------------------------------------------------------------------------
(* Chain registry and failed-unit tracker: db.go 108-112, 138-144, 187-219 *)

\* db.Where("chain_id = ?", chain.ChainID).FirstOrCreate(&chain)
GetDBChainID(db, chainID, chainName, fail) ==
  LET found == {r \in db.chains : r.chain_id = chainID}
      id == NextID(db.chains)
  IN IF fail THEN [db |-> db, ID |-> 0, err |-> "store_error"]
     ELSE IF found # {}
     THEN [db |-> db, ID |-> MinOf({r.id : r \in found}), err |-> NoErr]
     ELSE [db |-> [db EXCEPT !.chains = @ \cup
                     {[id |-> id, chain_id |-> chainID, name |-> chainName]}],
           ID |-> id, err |-> NoErr]

\* dbTransaction.Where(&failedBlock.Chain).FirstOrCreate(&failedBlock.Chain):
\* the struct condition uses the non-zero fields of Chain{ChainID, Name}.
FirstOrCreateChain(db, chainID, chainName) ==
  LET found == {r \in db.chains :
                  /\ (chainID # "" => r.chain_id = chainID)
                  /\ (chainName # "" => r.name = chainName)}
      id == NextID(db.chains)
  IN IF found # {}
     THEN [db |-> db, ID |-> MinOf({r.id : r \in found}), err |-> NoErr]
     ELSE IF ChainUniqueViolation(db.chains, chainID)
     THEN [db |-> db, ID |-> 0, err |-> "unique_violation"]
     ELSE [db |-> [db EXCEPT !.chains = @ \cup
                     {[id |-> id, chain_id |-> chainID, name |-> chainName]}],
           ID |-> id, err |-> NoErr]

\* dbTransaction.Where(&failedBlock).FirstOrCreate(&failedBlock) with
\* failedBlock = FailedBlock{Height, Chain}: the struct condition uses the
\* non-zero column fields, and the only one set is Height (the chain is an
\* association, its key column is filled in only when the row is created).
FirstOrCreateFailed(rows, blockHeight, chainKey) ==
  LET found == {r \in rows : blockHeight # 0 => r.height = blockHeight}
  IN IF found # {}
     THEN rows
     ELSE rows \cup {[id |-> NextID(rows), height |-> blockHeight,
                      blockchain_id |-> chainKey]}

UpsertFailedBody(db, table, blockHeight, chainID, chainName, fault) ==
  LET c == FirstOrCreateChain(db, chainID, chainName)
  IN IF fault = "chain" THEN [db |-> db, err |-> "store_error"]
     ELSE IF c.err # NoErr THEN [db |-> db, err |-> c.err]
     ELSE IF fault = "marker" THEN [db |-> c.db, err |-> "store_error"]
     ELSE [db |-> [c.db EXCEPT ![table] = FirstOrCreateFailed(@, blockHeight, c.ID)],
           err |-> NoErr]

UpsertFailedBlock(db, blockHeight, chainID, chainName, fault) ==
  Transaction(db, UpsertFailedBody(db, "failed_blocks", blockHeight,
                                   chainID, chainName, fault))

UpsertFailedEventBlock(db, blockHeight, chainID, chainName, fault) ==
  Transaction(db, UpsertFailedBody(db, "failed_event_blocks", blockHeight,
                                   chainID, chainName, fault))

\* The rows in ascending order of height.
OrderByHeight(rows) ==
  LET n == Cardinality(rows)
  IN [i \in 1..n |-> CHOOSE r \in rows :
        Cardinality({q \in rows : q.height < r.height
                                  \/ (q.height = r.height /\ q.id < r.id)}) = i - 1]

\* db.Table("failed_blocks").Where("chain_id = ?::int", chainID)
\*   .Order("height asc").Scan(&failedBlocks): the error of the query is
\* dropped, so a failed query (a store failure, or a column the table does
\* not have) yields the empty slice.
GetFailedBlocks(db, chainID, fail) ==
  IF fail \/ "chain_id" \notin FailedBlockColumns
  THEN <<>>
  ELSE OrderByHeight({r \in db.failed_blocks : r["chain_id"] = chainID})

----------------------------------------------------------------------------
(* Denomination registry: db.go 549-585 *)

\* The unique column of denom_units (models.DenomUnit).
DenomUnitUnique == {"name"}

\* INSERT ... ON CONFLICT DO NOTHING of one row: a row that collides with a
\* stored row on the unique columns is dropped.
CreateDoNothing(rows, row, uniqueCols) ==
  IF \E r \in rows : Project(r, uniqueCols) = Project(row, uniqueCols)
  THEN rows
  ELSE rows \cup {[row EXCEPT !.id = NextID(rows)]}

\* The units of one denomination, each inserted under the key of the
\* denomination (db.go 559-568).
RECURSIVE UpsertDenomUnits(_, _, _, _)
UpsertDenomUnits(db, units, denomID, fault) ==
  IF units = <<>> THEN [db |-> db, err |-> NoErr]
  ELSE IF fault = "unit" THEN [db |-> db, err |-> "store_error"]
  ELSE UpsertDenomUnits(
         [db EXCEPT !.denom_units =
            CreateDoNothing(@, [id |-> 0, denom_id |-> denomID,
                                name |-> Head(units).DenomUnit.Name],
                            DenomUnitUnique)],
         Tail(units), denomID, fault)

\* The loop over the denominations (db.go 551-570): the denomination is
\* upserted by base, then its units are inserted.
RECURSIVE UpsertDenomsBody(_, _, _)
UpsertDenomsBody(db, denoms, fault) ==
  IF denoms = <<>> THEN [db |-> db, err |-> NoErr]
  ELSE IF fault = "denom" THEN [db |-> db, err |-> "store_error"]
  ELSE LET d == Head(denoms)
           res == CreateOnConflict(db.denoms,
                    <<[id |-> 0, base |-> d.Denom.Base,
                       symbol |-> d.Denom.Symbol, name |-> d.Denom.Name]>>,
                    {"base"}, {"symbol", "name"})
           units == UpsertDenomUnits([db EXCEPT !.denoms = res.rows],
                                     d.DenomUnits, res.ids[1], fault)
       IN IF units.err # NoErr THEN units
          ELSE UpsertDenomsBody(units.db, Tail(denoms), fault)

UpsertDenoms(db, denoms, fault) ==
  Transaction(db, UpsertDenomsBody(db, denoms, fault))

\* The loop over the IBC denominations (db.go 576-583), upserted by hash.
RECURSIVE UpsertIBCDenomsBody(_, _, _)
UpsertIBCDenomsBody(db, denoms, fault) ==
  IF denoms = <<>> THEN [db |-> db, err |-> NoErr]
  ELSE IF fault = "denom" THEN [db |-> db, err |-> "store_error"]
  ELSE LET d == Head(denoms)
           res == CreateOnConflict(db.ibc_denoms,
                    <<[id |-> 0, hash |-> d.Hash, path |-> d.Path,
                       base_denom |-> d.BaseDenom]>>,
                    {"hash"}, {"path", "base_denom"})
       IN UpsertIBCDenomsBody([db EXCEPT !.ibc_denoms = res.rows],
                              Tail(denoms), fault)

UpsertIBCDenoms(db, denoms, fault) ==
  Transaction(db, UpsertIBCDenomsBody(db, denoms, fault))

----------------------------------------------------------------------------
(* Gap tracker: db.go 114-136, 146-151, 169-185 *)

\* The zero value of models.Block.
ZeroBlock ==
  [id |-> 0, height |-> 0, chain_id |-> 0, time_stamp |-> 0,
   tx_indexed |-> FALSE, block_events_indexed |-> FALSE]

\* .Order("height desc").First(&block): the first row, or the destination
\* left as it was when no row matches.
FirstByHeightDesc(rows) ==
  IF rows = {} THEN ZeroBlock
  ELSE CHOOSE r \in rows : \A q \in rows :
         q.height < r.height \/ (q.height = r.height /\ r.id <= q.id)

\* Faulty variant: the chain filter is missing from the query.
GetHighestIndexedBlockAnyChain(db, chainID, fail) ==
  IF fail THEN ZeroBlock
  ELSE FirstByHeightDesc({r \in db.blocks :
         r.tx_indexed = TRUE /\ r.time_stamp # 0})

\* The error of the query is dropped: a failed query returns the zero block.
GetHighestIndexedBlock(db, chainID, fail) ==
  IF fail THEN ZeroBlock
  ELSE FirstByHeightDesc({r \in db.blocks :
         r.chain_id = chainID /\ r.tx_indexed = TRUE /\ r.time_stamp # 0})

\* Faulty variant: the end of the range is never moved to currMax.Height + 1.
GetFirstMissingBlockInRangeNoExtend(db, start, end, chainID, failMax, failGap) ==
  LET missing_blocks == {i \in start..end : ~\E r \in db.blocks :
                           /\ r.height = i /\ r.chain_id = chainID
                           /\ r.tx_indexed = TRUE /\ r.time_stamp # 0}
  IN IF failGap THEN [status |-> "fatal", height |-> 0]
     ELSE IF missing_blocks = {} THEN [status |-> "ok", height |-> start]
     ELSE [status |-> "ok", height |-> MinOf(missing_blocks)]

\* Faulty variant: "no rows" leaves firstMissingBlock at its zero value.
GetFirstMissingBlockInRangeNoFallback(db, start, end, chainID, failMax, failGap) ==
  LET currMax == GetHighestIndexedBlock(db, chainID, failMax)
      end1 == IF currMax.height > start THEN currMax.height + 1 ELSE end
      missing_blocks == {i \in start..end1 : ~\E r \in db.blocks :
                           /\ r.height = i /\ r.chain_id = chainID
                           /\ r.tx_indexed = TRUE /\ r.time_stamp # 0}
  IN IF failGap THEN [status |-> "fatal", height |-> 0]
     ELSE IF missing_blocks = {} THEN [status |-> "ok", height |-> 0]
     ELSE [status |-> "ok", height |-> MinOf(missing_blocks)]

\* failMax: the query of GetHighestIndexedBlock fails; failGap: the gap
\* query fails with an error other than "no rows in result set".
GetFirstMissingBlockInRange(db, start, end, chainID, failMax, failGap) ==
  LET currMax == GetHighestIndexedBlock(db, chainID, failMax)
      end1 == IF currMax.height > start THEN currMax.height + 1 ELSE end
      series == start..end1
      missing_blocks == {i \in series : ~\E r \in db.blocks :
                           /\ r.height = i /\ r.chain_id = chainID
                           /\ r.tx_indexed = TRUE /\ r.time_stamp # 0}
  IN IF failGap THEN [status |-> "fatal", height |-> 0]
     ELSE IF missing_blocks = {} THEN [status |-> "ok", height |-> start]
     ELSE [status |-> "ok", height |-> MinOf(missing_blocks)]

GetHighestEventIndexedBlock(db, chainID, fail) ==
  IF fail THEN [block |-> ZeroBlock, err |-> "store_error"]
  ELSE [block |-> FirstByHeightDesc({r \in db.blocks :
                    /\ r.chain_id = chainID /\ r.block_events_indexed = TRUE
                    /\ r.time_stamp # 0}),
        err |-> NoErr]

\* Faulty variant: the query does not exclude the zero timestamp.
BlockEventsAlreadyIndexedNoSentinel(blockHeight, chainID, db, fail) ==
  IF fail THEN [exists |-> FALSE, err |-> "store_error"]
  ELSE [exists |-> Cardinality({r \in db.blocks :
                     /\ r.height = blockHeight /\ r.chain_id = chainID
                     /\ r.block_events_indexed = TRUE}) > 0,
        err |-> NoErr]

\* SELECT count(*) > 0 over the event-indexed rows of the height with a
\* non-zero time stamp (db.go 181-185).
BlockEventsAlreadyIndexed(blockHeight, chainID, db, fail) ==
  IF fail THEN [exists |-> FALSE, err |-> "store_error"]
  ELSE [exists |-> Cardinality({r \in db.blocks :
                     /\ r.height = blockHeight /\ r.chain_id = chainID
                     /\ r.block_events_indexed = TRUE /\ r.time_stamp # 0}) > 0,
        err |-> NoErr]

----------------------------------------------------------------------------
(* Specification of the gap tracker over stored block tables *)

GapFirstHeight == 10
GapLastHeight == 15
GapFarEnd == 20
MaxOddRows == 1

GapHeights == GapFirstHeight..GapLastHeight
GapChains == {1, 2}
GapStarts == GapFirstHeight..(GapFirstHeight + 3)
GapEnds == GapStarts \cup {GapFarEnd}

BlockRow(chain, h, ts, tx, ev) ==
  [id |-> 0, height |-> h, chain_id |-> chain, time_stamp |-> ts,
   tx_indexed |-> tx, block_events_indexed |-> ev]

\* Rows other than a transaction-indexed row of chain 1: placeholder rows
\* with the zero timestamp, rows indexed for events only, rows of chain 2.
OddRows ==
  {BlockRow(1, h, 0, TRUE, TRUE) : h \in GapHeights}
  \cup {BlockRow(1, h, 1, FALSE, TRUE) : h \in GapHeights}
  \cup {BlockRow(2, h, 1, TRUE, TRUE) : h \in GapHeights}
  \cup {BlockRow(2, h, 0, TRUE, TRUE) : h \in GapHeights}

\* Surrogate keys in some order of insertion (here: by chain and height).
WithIDs(rows) ==
  {[r EXCEPT !.id = 1 + Cardinality({q \in rows :
       q.chain_id < r.chain_id
       \/ (q.chain_id = r.chain_id /\ q.height < r.height)})] : r \in rows}

RECURSIVE OddRowSets(_)
OddRowSets(n) ==
  IF n = 0 THEN {{}}
  ELSE LET smaller == OddRowSets(n - 1)
       IN smaller \cup {S \cup {o} : S \in smaller, o \in OddRows}

GapBlockTables ==
  {WithIDs({BlockRow(1, h, 1, TRUE, FALSE) : h \in I} \cup O) :
     <<I, O>> \in {<<I, O>> \in (SUBSET GapHeights) \X OddRowSets(MaxOddRows) :
        /\ \A o \in O : ~(o.chain_id = 1 /\ o.height \in I)
        /\ \A o, p \in O : (o.chain_id = p.chain_id /\ o.height = p.height) => o = p}}

GapInit ==
  /\ store \in {[EmptyStore EXCEPT
                  !.chains = {[id |-> 1, chain_id |-> "osmosis-1", name |-> "Osmosis"],
                              [id |-> 2, chain_id |-> "juno-1", name |-> "Juno"]},
                  !.blocks = B] : B \in GapBlockTables}
  /\ last = [op |-> "init"]
  /\ nops = [persist |-> 0, mark |-> 0, chain |-> 0, read |-> 0, denom |-> 0,
          fault |-> 0]
  /\ workers = <<>>

\* The calls of the gap tracker read the store and leave it as it is: a
\* behaviour is one call on one table of blocks.
HighestIndexed ==
  \E c \in GapChains, fail \in BOOLEAN :
    /\ last.op = "init"
    /\ last' = [op |-> "GetHighestIndexedBlock", chainID |-> c, fail |-> fail,
                block |-> GetHighestIndexedBlock(store, c, fail)]
    /\ UNCHANGED <<store, nops, workers>>

FirstMissing ==
  \E c \in GapChains, start \in GapStarts, end \in GapEnds,
     failMax \in BOOLEAN, failGap \in BOOLEAN :
    /\ last.op = "init"
    /\ ~(failMax /\ failGap)
    /\ last' = [op |-> "GetFirstMissingBlockInRange", chainID |-> c,
                start |-> start, end |-> end,
                failMax |-> failMax, failGap |-> failGap,
                res |-> GetFirstMissingBlockInRange(store, start, end, c,
                                                    failMax, failGap)]
    /\ UNCHANGED <<store, nops, workers>>

HighestEventIndexed ==
  \E c \in GapChains, fail \in BOOLEAN :
    /\ last.op = "init"
    /\ last' = [op |-> "GetHighestEventIndexedBlock", chainID |-> c, fail |-> fail,
                res |-> GetHighestEventIndexedBlock(store, c, fail)]
    /\ UNCHANGED <<store, nops, workers>>

EventsAlreadyIndexed ==
  \E c \in GapChains, h \in GapHeights, fail \in BOOLEAN :
    /\ last.op = "init"
    /\ last' = [op |-> "BlockEventsAlreadyIndexed", chainID |-> c, height |-> h,
                fail |-> fail,
                res |-> BlockEventsAlreadyIndexed(h, c, store, fail)]
    /\ UNCHANGED <<store, nops, workers>>

GapNext == HighestIndexed \/ FirstMissing \/ HighestEventIndexed \/ EventsAlreadyIndexed

GapSpec == GapInit /\ [][GapNext]_vars

----------------------------------------------------------------------------
(* Specification of the store under sequences of calls *)

\* A decoded transaction as the decoder hands it over (TxDBWrapper): the
\* reference maps hold, per natural key, the natural value of the entity.
TxDBWrapper(hash, code, signer, msgs, mt, et, ak) ==
  [Tx |-> [Hash |-> hash, Code |-> code, SignerAddressID |-> signer],
   Messages |-> msgs,
   UniqueMessageTypes |-> mt,
   UniqueMessageEventTypes |-> et,
   UniqueMessageAttributeKeys |-> ak]

NaturalMap(K) == [k \in K |-> k]

UsedMessageTypes(msgs) == {msgs[j].MessageType : j \in 1..Len(msgs)}

UsedEventTypes(msgs) ==
  UNION {{msgs[j].MessageEvents[e].Type : e \in 1..Len(msgs[j].MessageEvents)} :
           j \in 1..Len(msgs)}

UsedAttributeKeys(msgs) ==
  UNION {UNION {{msgs[j].MessageEvents[e].Attributes[a].Key :
                    a \in 1..Len(msgs[j].MessageEvents[e].Attributes)} :
                  e \in 1..Len(msgs[j].MessageEvents)} :
           j \in 1..Len(msgs)}

\* A transaction whose maps introduce exactly the keys its messages use.
ConsistentTx(hash, code, signer, msgs) ==
  TxDBWrapper(hash, code, signer, msgs,
              NaturalMap(UsedMessageTypes(msgs)),
              NaturalMap(UsedEventTypes(msgs)),
              NaturalMap(UsedAttributeKeys(msgs)))

AttrValues == <<"v0", "v1", "v2", "v3">>

\* One message with one event with one attribute.
FullMessage(mtype, idx, etype, akey, value) ==
  [MessageType |-> mtype, MessageIndex |-> idx,
   MessageEvents |-> <<[Type |-> etype, Index |-> 0,
                        Attributes |-> <<[Key |-> akey, Index |-> 0,
                                          Value |-> value]>>]>>]

\* Transactions of the call sequences: one full message each; the
\* signer key and the attribute value vary with the code.
CoreTxs ==
  {ConsistentTx(h, c, c, <<FullMessage("send", 0, "transfer", "amount",
                                       AttrValues[c + 1])>>) :
     h \in Hashes, c \in Codes}

CoreTxLists == {<<>>} \cup {<<t>> : t \in CoreTxs}

\* A store failure at one statement of IndexNewBlock, or none.
Faults(maxTx) ==
  {NoFault}
  \cup {[stage |-> st, tx |-> 0] :
          st \in {"delete", "block", "txes", "message_types",
                  "message_event_types", "message_event_attribute_keys"}}
  \cup {[stage |-> st, tx |-> i] :
          st \in {"messages", "events", "attributes"}, i \in 1..maxTx}

Init ==
  /\ store = EmptyStore
  /\ last = [op |-> "init"]
  /\ nops = [persist |-> 0, mark |-> 0, chain |-> 0, read |-> 0, denom |-> 0,
          fault |-> 0]
  /\ workers = <<>>

TotalOps == nops.persist + nops.mark + nops.chain + nops.read + nops.denom

\* One more call of the given kind; injected tells whether a store failure
\* is injected into it.
Count(kind, injected) ==
  [nops EXCEPT ![kind] = @ + 1, !.fault = IF injected THEN @ + 1 ELSE @]

\* A run of the model ends with the first injected store failure.
MayCall == TotalOps < MaxOps /\ nops.fault = 0

ChainCall ==
  /\ MayCall /\ nops.chain < MaxChainCalls
  /\ \E a \in ChainArgs, fail \in BOOLEAN :
       \E r \in {GetDBChainID(store, a[1], a[2], fail)} :
         /\ store' = r.db
         /\ last' = [op |-> "GetDBChainID", chainID |-> a[1],
                     chainName |-> a[2], ID |-> r.ID, err |-> r.err]
         /\ nops' = Count("chain", fail)
         /\ UNCHANGED workers

MarkFailedBlock ==
  /\ MayCall /\ nops.mark < MaxMarks
  /\ \E h \in Heights, a \in ChainArgs, fault \in {"none", "chain", "marker"} :
       \E r \in {UpsertFailedBlock(store, h, a[1], a[2], fault)} :
         /\ store' = r.db
         /\ last' = [op |-> "UpsertFailedBlock", height |-> h, chainID |-> a[1],
                     chainName |-> a[2], fault |-> fault, err |-> r.err]
         /\ nops' = Count("mark", fault # "none")
         /\ UNCHANGED workers

MarkFailedEventBlock ==
  /\ MayCall /\ nops.mark < MaxMarks
  /\ \E h \in Heights, a \in ChainArgs, fault \in {"none", "chain", "marker"} :
       \E r \in {UpsertFailedEventBlock(store, h, a[1], a[2], fault)} :
         /\ store' = r.db
         /\ last' = [op |-> "UpsertFailedEventBlock", height |-> h,
                     chainID |-> a[1], chainName |-> a[2],
                     fault |-> fault, err |-> r.err]
         /\ nops' = Count("mark", fault # "none")
         /\ UNCHANGED workers

\* What a call of IndexNewBlock finds: a failure marker of its block, a
\* stored transaction with one of its hashes and another code, the same
\* successful call right before it.
FindsMarker(c, h) ==
  \E r \in store.failed_blocks : r.height = h /\ r.blockchain_id = c

FindsConflict(txs) ==
  \E i \in 1..Len(txs) : \E r \in store.txes :
    r.hash = txs[i].Tx.Hash /\ r.code # txs[i].Tx.Code

Repeats(c, h, t, txs) ==
  /\ last.op = "IndexNewBlock" /\ last.err = NoErr
  /\ last.chain = c /\ last.height = h /\ last.time = t /\ last.txs = txs

\* The caller passes the chain key GetDBChainID gave it.  The record of a
\* call a store failure was injected into keeps the block's key only.
PersistBlock(heights, times, txLists, revs, faults) ==
  \E c \in {r.id : r \in store.chains}, h \in heights, t \in times,
     txs \in txLists, rev \in revs, fault \in faults :
    \E r \in {IndexNewBlock(store, h, t, txs, c, rev, fault)} :
      /\ store' = r.db
      /\ last' = IF fault # NoFault /\ r.err # NoErr
                 THEN [op |-> "IndexNewBlock", height |-> h, chain |-> c,
                       fault |-> fault, err |-> r.err,
                       marker |-> FindsMarker(c, h)]
                 ELSE [op |-> "IndexNewBlock", height |-> h, time |-> t,
                       txs |-> txs, chain |-> c, rev |-> rev, fault |-> fault,
                       err |-> r.err, marker |-> FindsMarker(c, h),
                       conflict |-> FindsConflict(txs),
                       repeated |-> Repeats(c, h, t, txs)]
      /\ nops' = Count("persist", fault # NoFault /\ r.err # NoErr)
      /\ UNCHANGED workers

CorePersistBlock ==
  /\ MayCall /\ nops.persist < MaxPersists
  /\ PersistBlock(Heights, Times, CoreTxLists, {FALSE}, Faults(1))

ListFailedBlocks ==
  /\ MayCall /\ nops.read < MaxReads
  /\ \E c \in {r.id : r \in store.chains}, fail \in BOOLEAN :
       /\ last' = [op |-> "GetFailedBlocks", chain |-> c, fail |-> fail,
                   rows |-> GetFailedBlocks(store, c, fail)]
       /\ nops' = Count("read", fail)
       /\ UNCHANGED workers
       /\ UNCHANGED store

Next ==
  \/ ChainCall
  \/ MarkFailedBlock
  \/ MarkFailedEventBlock
  \/ CorePersistBlock
  \/ ListFailedBlocks

Spec == Init /\ [][Next]_vars

----------------------------------------------------------------------------
(* Specification of one call of IndexNewBlock over decoded blocks of two
   transactions *)

MaxTxs == 2
MaxPipePersists == 1
SeedHeight == 1

\* The event type and the attribute key of an event, by flavour.
PipeFlavors == {<<"transfer", "amount">>, <<"mint", "sender">>}

\* The events of a message: none, one event without attributes, or one
\* event with one attribute.
PipeEvents(value) ==
  {<<>>}
  \cup {<<[Type |-> f[1], Index |-> 0, Attributes |-> <<>>]>> : f \in PipeFlavors}
  \cup {<<[Type |-> f[1], Index |-> 0,
           Attributes |-> <<[Key |-> f[2], Index |-> 0, Value |-> value]>>]>> :
          f \in PipeFlavors}

\* The messages of a transaction: none, one message, or two full messages.
PipeMessageLists(value) ==
  {<<>>}
  \cup {<<[MessageType |-> m, MessageIndex |-> 0, MessageEvents |-> evs]>> :
          m \in MessageTypeKeys, evs \in PipeEvents(value)}
  \cup {<<FullMessage(m1, 0, "transfer", "amount", value),
          FullMessage(m2, 1, "mint", "sender", value)>> :
          m1 \in MessageTypeKeys, m2 \in MessageTypeKeys}

\* What the decoder put into a reference map of the transaction: the keys
\* its messages use, nothing, every key of the kind, or the keys its
\* messages use under the name of another key.
Declarations == {"own", "none", "all", "swapped"}

Declared(decl, used, all) ==
  CASE decl = "own" -> NaturalMap(used)
    [] decl = "none" -> NaturalMap({})
    [] decl = "all" -> NaturalMap(all)
    [] decl = "swapped" -> [k \in used |-> CHOOSE o \in all : o # k]

PipeTx(hash, code, msgs, decl) ==
  TxDBWrapper(hash, code, code, msgs,
              Declared(decl, UsedMessageTypes(msgs), MessageTypeKeys),
              Declared(decl, UsedEventTypes(msgs), EventTypeKeys),
              Declared(decl, UsedAttributeKeys(msgs), AttributeKeys))

PipeTxs ==
  UNION {{PipeTx(h, c, msgs, decl) :
            h \in Hashes, msgs \in PipeMessageLists(AttrValues[c + 1]),
            decl \in Declarations} : c \in Codes}

\* The lists of at most n transactions.
RECURSIVE PipeTxLists(_)
PipeTxLists(n) ==
  IF n = 0 THEN {<<>>}
  ELSE {<<>>} \cup {Append(l, t) : l \in PipeTxLists(n - 1), t \in PipeTxs}

\* The stores a call starts from: the chain registered, and one block with
\* one transaction persisted or not.
PipeStores ==
  LET registered == GetDBChainID(EmptyStore, "osmosis-1", "Osmosis", FALSE)
      seed == CHOOSE t \in CoreTxs : t.Tx.Hash = "h1" /\ t.Tx.Code = 0
  IN {registered.db,
      IndexNewBlock(registered.db, SeedHeight, MaxTime, <<seed>>,
                    registered.ID, FALSE, NoFault).db}

PipeInit ==
  /\ store \in PipeStores
  /\ last = [op |-> "init"]
  /\ nops = [persist |-> 0, mark |-> 0, chain |-> 0, read |-> 0, denom |-> 0,
          fault |-> 0]
  /\ workers = <<>>

\* A call for a block of at most MaxTxs transactions, in either order of
\* the keys of the maps.
PipePersistBlock ==
  /\ nops.persist < MaxPipePersists
  /\ \/ PersistBlock({SeedHeight}, {MaxTime}, {<<>>}, BOOLEAN, {NoFault})
     \/ \E l \in PipeTxLists(MaxTxs - 1), t \in PipeTxs :
          PersistBlock({SeedHeight}, {MaxTime}, {Append(l, t)}, BOOLEAN, {NoFault})

PipeNext == PipePersistBlock

PipeSpec == PipeInit /\ [][PipeNext]_vars

----------------------------------------------------------------------------
(* Call sequences with the denomination upserts (AppendSpec) *)

MaxDenomCalls == 1

DenomDBWrapper(base, symbol, units) ==
  [Denom |-> [Base |-> base, Symbol |-> symbol, Name |-> symbol],
   DenomUnits |-> [i \in 1..Len(units) |-> [DenomUnit |-> [Name |-> units[i]]]]]

\* The batches of denominations: a denomination without and with units,
\* once more under another symbol, and two denominations.
DenomLists ==
  {<<DenomDBWrapper("uosmo", "OSMO", <<>>)>>,
   <<DenomDBWrapper("uosmo", "osmo", <<"osmo", "mosmo">>)>>,
   <<DenomDBWrapper("uosmo", "OSMO", <<"osmo">>),
     DenomDBWrapper("ujuno", "JUNO", <<"juno">>)>>}

IBCDenomLists ==
  {<<[Hash |-> "ibc/1", Path |-> p, BaseDenom |-> "uosmo"]>> :
     p \in {"transfer/channel-0", "transfer/channel-1"}}

UpsertDenomsCall ==
  /\ MayCall /\ nops.denom < MaxDenomCalls
  /\ \E denoms \in DenomLists, fault \in {"none", "denom", "unit"} :
       \E r \in {UpsertDenoms(store, denoms, fault)} :
         /\ store' = r.db
         /\ last' = [op |-> "UpsertDenoms", denoms |-> denoms,
                     fault |-> fault, err |-> r.err]
         /\ nops' = Count("denom", r.err # NoErr)
         /\ UNCHANGED workers

UpsertIBCDenomsCall ==
  /\ MayCall /\ nops.denom < MaxDenomCalls
  /\ \E denoms \in IBCDenomLists, fault \in {"none", "denom"} :
       \E r \in {UpsertIBCDenoms(store, denoms, fault)} :
         /\ store' = r.db
         /\ last' = [op |-> "UpsertIBCDenoms", denoms |-> denoms,
                     fault |-> fault, err |-> r.err]
         /\ nops' = Count("denom", r.err # NoErr)
         /\ UNCHANGED workers

AppendNext ==
  \/ ChainCall
  \/ MarkFailedBlock
  \/ MarkFailedEventBlock
  \/ CorePersistBlock
  \/ ListFailedBlocks
  \/ UpsertDenomsCall
  \/ UpsertIBCDenomsCall

AppendSpec == Init /\ [][AppendNext]_vars

----------------------------------------------------------------------------
(* Concurrent calls of IndexNewBlock and readers (ConcSpec)                *)
(*                                                                         *)
(* Every call runs in a transaction of its own (db.Transaction, db.go      *)
(* 225): its statements see the committed rows and its own writes, and     *)
(* its writes reach the store when it commits.  A statement that writes a  *)
(* row another running transaction has written, or inserts a unique key    *)
(* another running transaction has inserted, waits until that transaction  *)
(* has ended.  The readers run on the handle outside the transaction and   *)
(* see the committed rows.                                                 *)

MaxWorkers == 2

Workers == 1..MaxWorkers

Tables == DOMAIN EmptyStore

NoRows == [t \in Tables |-> {}]

\* A row another running transaction has inserted: not visible, but its
\* key is taken from the sequence of the table.
HiddenRow ==
  [blocks |-> [id |-> 0, height |-> -1, chain_id |-> -1, time_stamp |-> 0,
               tx_indexed |-> FALSE, block_events_indexed |-> FALSE],
   txes |-> [id |-> 0, hash |-> "", code |-> 0, block_id |-> 0,
             signer_address_id |-> 0],
   message_types |-> [id |-> 0, message_type |-> ""],
   message_event_types |-> [id |-> 0, type |-> ""],
   message_event_attribute_keys |-> [id |-> 0, key |-> ""],
   messages |-> [id |-> 0, tx_id |-> -1, message_index |-> -1,
                 message_type_id |-> 0],
   message_events |-> [id |-> 0, message_id |-> -1, index |-> -1,
                       message_event_type_id |-> 0],
   message_event_attributes |-> [id |-> 0, message_event_id |-> -1,
                                 index |-> -1, value |-> "",
                                 message_event_attribute_key_id |-> 0]]

Running(ws) == {w \in DOMAIN ws : ws[w].status = "running"}

\* The committed rows with the writes of one transaction applied.
ApplyWrites(db, rows, gone) ==
  [t \in Tables |->
     LET kept == {r \in db[t] : r.id \notin {q.id : q \in rows[t]}} \cup rows[t]
     IN IF t = "failed_blocks" THEN kept \ gone ELSE kept]

\* What a statement of transaction w sees.
View(db, ws, w) ==
  LET mine == ApplyWrites(db, ws[w].rows, ws[w].gone)
      taken(t) == UNION {{q.id : q \in ws[o].rows[t]} : o \in Running(ws) \ {w}}
                    \ {r.id : r \in db[t]}
  IN [t \in Tables |->
        IF t \in DOMAIN HiddenRow
        THEN mine[t] \cup {[HiddenRow[t] EXCEPT !.id = i] : i \in taken(t)}
        ELSE mine[t]]

\* Faulty variant: the readers see the rows the running calls have written.
ReaderViewDirty(db, ws) ==
  [t \in Tables |->
     (db[t] \cup UNION {ws[w].rows[t] : w \in Running(ws)})
       \ UNION {ws[w].gone : w \in Running(ws)}]

\* What a reader sees: the functions of the gap tracker and
\* GetFailedBlocks are called with the handle of the pool, not with the
\* handle of a transaction (db.go 108, 114, 146).
ReaderView(db, ws) == db

\* The statements of a call, the FirstOrCreate of the block as the SELECT
\* and the write it consists of.
ConcStatements(txs) ==
  LET s == Statements(txs)
  IN <<s[1], [stage |-> "block_select", tx |-> 0],
       [stage |-> "block_write", tx |-> 0]>> \o SubSeq(s, 3, Len(s))

ConcStatement(ctx, in, st) ==
  CASE st.stage = "block_select" ->
         [ctx EXCEPT !.blockID = SelectBlock(ctx.db, in.blockHeight, in.dbChainID)]
    [] st.stage = "block_write" ->
         IF ctx.blockID # 0
         THEN [ctx EXCEPT !.db = AssignBlock(ctx.db, ctx.blockID, in.blockTime)]
         ELSE LET b == CreateBlock(ctx.db, in.blockHeight, in.blockTime, in.dbChainID)
              IN [ctx EXCEPT !.db = b.db, !.blockID = b.ID, !.err = b.err]
    [] OTHER -> Statement(ctx, in, st)

\* The values of a batch of reference rows, in the order of the batch
\* (the order in which the merged map is enumerated, db.go 464-467).
ReferenceBatch(maps, rev) ==
  LET full == MergeMaps(maps)
      order == MapOrder(DOMAIN full, rev)
  IN [i \in 1..Len(order) |-> full[order[i]]]

\* The rows and unique keys the statement locks until its transaction
\* ends, in the order in which it takes them: a batch upsert takes the key
\* of its rows one after the other, in the order of the batch.
LockGroups(view, ctx, in, st) ==
  LET perRow(table, keys) == [i \in 1..Len(keys) |-> {<<table, keys[i], 0>>}]
  IN CASE st.stage = "delete" ->
            <<{<<"failed_blocks", r.id, 0>> :
                 r \in {m \in view.failed_blocks :
                          m.height = in.blockHeight /\ m.blockchain_id = in.dbChainID}}>>
       [] st.stage = "block_write" ->
            <<{<<"blocks", in.dbChainID, in.blockHeight>>}>>
       [] st.stage = "txes" ->
            LET slice == TxesSlice(in.txs, ctx.blockID, in.rev)
            IN perRow("txes", [i \in 1..Len(slice) |-> slice[i].hash])
       [] st.stage = "message_types" ->
            perRow("message_types",
                   ReferenceBatch([i \in 1..Len(in.txs) |->
                                     in.txs[i].UniqueMessageTypes], in.rev))
       [] st.stage = "message_event_types" ->
            perRow("message_event_types",
                   ReferenceBatch([i \in 1..Len(in.txs) |->
                                     in.txs[i].UniqueMessageEventTypes], in.rev))
       [] st.stage = "message_event_attribute_keys" ->
            perRow("message_event_attribute_keys",
                   ReferenceBatch([i \in 1..Len(in.txs) |->
                                     in.txs[i].UniqueMessageAttributeKeys], in.rev))
       [] OTHER -> <<>>

StatementLocks(view, ctx, in, st) ==
  UNION Range(LockGroups(view, ctx, in, st))

Blocked(ws, w, need) ==
  \E o \in Running(ws) \ {w} : need \cap ws[o].locks # {}

\* The keys read back so far, with the rows the statement works on.
WithDB(ctx, db) ==
  [db |-> db, err |-> ctx.err, blockID |-> ctx.blockID, txIDs |-> ctx.txIDs,
   mt |-> ctx.mt, et |-> ctx.et, ak |-> ctx.ak, mids |-> ctx.mids,
   eids |-> ctx.eids]

WithoutDB(ctx) ==
  [err |-> ctx.err, blockID |-> ctx.blockID, txIDs |-> ctx.txIDs,
   mt |-> ctx.mt, et |-> ctx.et, ak |-> ctx.ak, mids |-> ctx.mids,
   eids |-> ctx.eids]

\* One statement of the running call w: its effect on the call.
RunStatement(db, ws, w) ==
  LET c == ws[w]
      st == ConcStatements(c.in.txs)[c.k]
      view == View(db, ws, w)
      res == IF c.in.fault = st /\ Issued(c.ctx, c.in, st)
             THEN [WithDB(c.ctx, view) EXCEPT !.err = "store_error"]
             ELSE ConcStatement(WithDB(c.ctx, view), c.in, st)
      written == [t \in Tables |-> res.db[t] \ view[t]]
  IN [c EXCEPT !.k = @ + 1,
               !.ctx = WithoutDB(res),
               !.rows = [t \in Tables |->
                           {r \in @[t] : r.id \notin {q.id : q \in written[t]}}
                           \cup written[t]],
               !.gone = @ \cup (view.failed_blocks \ res.db.failed_blocks),
               !.locks = @ \cup StatementLocks(view, c.ctx, c.in, st),
               !.row = 0]

\* The locks the running call w takes next: those of the next row of the
\* batch of its statement.
NextLocks(db, ws, w) ==
  LET c == ws[w]
      stmts == ConcStatements(c.in.txs)
      groups == LockGroups(View(db, ws, w), c.ctx, c.in, stmts[c.k])
  IN IF c.ctx.err # NoErr \/ c.k > Len(stmts) \/ c.row >= Len(groups)
     THEN {}
     ELSE groups[c.row + 1]

\* Whether the next row is the last one of the batch: the statement ends
\* with it.
LastRow(db, ws, w) ==
  LET c == ws[w]
  IN c.row + 1 >= Len(LockGroups(View(db, ws, w), c.ctx, c.in,
                                 ConcStatements(c.in.txs)[c.k]))

\* The running calls that hold a lock the call w waits for, and the calls
\* those wait for, n times over.
WaitsFor(db, ws, w) ==
  {o \in Running(ws) \ {w} : NextLocks(db, ws, w) \cap ws[o].locks # {}}

RECURSIVE WaitChain(_, _, _, _)
WaitChain(db, ws, S, n) ==
  IF n = 0 THEN S
  ELSE S \cup WaitChain(db, ws, UNION {WaitsFor(db, ws, o) : o \in S}, n - 1)

\* The call waits for a lock whose holder waits, directly or not, for a
\* lock of the call.
Deadlocked(db, ws, w) ==
  w \in WaitChain(db, ws, WaitsFor(db, ws, w), MaxWorkers)

\* The calls of the workers: blocks with at most one transaction whose
\* batches hold one row each; worker w calls with the time w.
ConcTxLists ==
  {<<>>}
  \cup {<<ConsistentTx("h1", c, c, <<FullMessage("send", 0, "transfer", "amount",
                                                AttrValues[c + 1])>>)>> : c \in Codes}
  \cup {<<PipeTx("h2", 0, <<[MessageType |-> "vote", MessageIndex |-> 0,
                             MessageEvents |-> <<>>]>>, "none")>>}

ConcFaults == {NoFault, [stage |-> "attributes", tx |-> 1]}

\* The stores the workers start from: the chain registered, then nothing
\* more, a block with a transaction, or a failure marker.
ConcStores ==
  PipeStores
  \cup {UpsertFailedBlock(GetDBChainID(EmptyStore, "osmosis-1", "Osmosis", FALSE).db,
                          SeedHeight, "osmosis-1", "Osmosis", "none").db}

ConcInit ==
  /\ store \in ConcStores
  /\ last = [op |-> "init"]
  /\ nops = [persist |-> 0, mark |-> 0, chain |-> 0, read |-> 0, denom |-> 0,
             fault |-> 0]
  /\ workers = <<>>

\* A worker enters IndexNewBlock: db.Transaction begins (db.go 225).
BeginCall(txLists, revs, faults) ==
  \E w \in Workers \ DOMAIN workers :
    /\ \A o \in Workers : o < w => o \in DOMAIN workers
    /\ \E c \in {r.id : r \in store.chains}, h \in Heights,
          txs \in txLists, rev \in revs, fault \in faults :
         workers' = workers @@ (w :>
           [status |-> "running", k |-> 1,
            in |-> [blockHeight |-> h, blockTime |-> w, txs |-> txs,
                    dbChainID |-> c, rev |-> rev, fault |-> fault],
            ctx |-> [err |-> NoErr, blockID |-> 0, txIDs |-> <<>>,
                     mt |-> <<>>, et |-> <<>>, ak |-> <<>>,
                     mids |-> <<>>, eids |-> <<>>],
            rows |-> NoRows, gone |-> {}, locks |-> {}, row |-> 0])
    /\ last' = [op |-> "begin", worker |-> w]
    /\ UNCHANGED <<store, nops>>

Begin == BeginCall(ConcTxLists, {FALSE}, ConcFaults)

\* The next row of the statement of a running call, unless it has to
\* wait for the lock: the row is locked, and with the last row of the batch
\* the statement ends.
Step ==
  \E w \in Running(workers) :
    /\ workers[w].ctx.err = NoErr
    /\ workers[w].k <= Len(ConcStatements(workers[w].in.txs))
    /\ ~Blocked(workers, w, NextLocks(store, workers, w))
    /\ \E c \in {IF LastRow(store, workers, w)
                  THEN RunStatement(store, workers, w)
                  ELSE [workers[w] EXCEPT
                          !.row = @ + 1,
                          !.locks = @ \cup NextLocks(store, workers, w)]} :
         /\ workers' = [workers EXCEPT ![w] = c]
         /\ last' = [op |-> "statement", worker |-> w]
    /\ UNCHANGED <<store, nops>>

\* The store finds a cycle of calls waiting for each other and ends the
\* statement of one of them with an error ("deadlock detected").
Deadlock ==
  \E w \in Running(workers) :
    /\ workers[w].ctx.err = NoErr
    /\ Deadlocked(store, workers, w)
    /\ workers' = [workers EXCEPT ![w].ctx.err = "deadlock"]
    /\ last' = [op |-> "deadlock", worker |-> w]
    /\ UNCHANGED <<store, nops>>

\* The function returned nil: the transaction commits.
Commit ==
  \E w \in Running(workers) :
    /\ workers[w].ctx.err = NoErr
    /\ workers[w].k > Len(ConcStatements(workers[w].in.txs))
    /\ store' = ApplyWrites(store, workers[w].rows, workers[w].gone)
    /\ workers' = [workers EXCEPT ![w].status = "committed", ![w].rows = NoRows,
                                  ![w].gone = {}, ![w].locks = {}]
    /\ last' = [op |-> "commit", worker |-> w]
    /\ UNCHANGED nops

\* The function returned an error: the transaction is rolled back.
Rollback ==
  \E w \in Running(workers) :
    /\ workers[w].ctx.err # NoErr
    /\ workers' = [workers EXCEPT ![w].status = "aborted", ![w].rows = NoRows,
                                  ![w].gone = {}, ![w].locks = {}]
    /\ last' = [op |-> "rollback", worker |-> w]
    /\ UNCHANGED <<store, nops>>

\* What the readers report for a chain.
Reads(db, chainID) ==
  [highest |-> GetHighestIndexedBlock(db, chainID, FALSE).height,
   missing |-> GetFirstMissingBlockInRange(db, 1, MaxHeight, chainID, FALSE, FALSE),
   failed |-> GetFailedBlocks(db, chainID, FALSE)]

\* A reader runs while the workers do.
Read ==
  /\ DOMAIN workers # {}
  /\ \E c \in {r.id : r \in store.chains} :
       last' = [op |-> "read", chain |-> c,
                result |-> Reads(ReaderView(store, workers), c)]
  /\ UNCHANGED <<store, nops, workers>>

ConcNext ==
  \/ Begin
  \/ Step
  \/ Commit
  \/ Rollback
  \/ Read

ConcSpec == ConcInit /\ [][ConcNext]_vars

----------------------------------------------------------------------------
(* Concurrent calls for blocks that share reference data (SharedSpec) *)

\* The calls of the workers: one transaction with two messages, whose
\* reference maps hold two message types, two event types and two
\* attribute keys, or with the first of these messages only; the maps are
\* enumerated in either order.
SharedTxLists ==
  {<<ConsistentTx(h, 0, 0,
                  <<FullMessage("send", 0, "transfer", "amount", AttrValues[1]),
                    FullMessage("vote", 1, "mint", "sender", AttrValues[1])>>)>> :
     h \in Hashes}
  \cup {<<ConsistentTx("h2", 0, 0,
                       <<FullMessage("send", 0, "transfer", "amount",
                                     AttrValues[1])>>)>>}

SharedInit ==
  /\ store \in PipeStores
  /\ last = [op |-> "init"]
  /\ nops = [persist |-> 0, mark |-> 0, chain |-> 0, read |-> 0, denom |-> 0,
             fault |-> 0]
  /\ workers = <<>>

SharedBegin == BeginCall(SharedTxLists, BOOLEAN, {NoFault})

SharedNext ==
  \/ SharedBegin
  \/ Step
  \/ Deadlock
  \/ Commit
  \/ Rollback
  \/ Read

SharedSpec == SharedInit /\ [][SharedNext]_vars

----------------------------------------------------------------------------
(* Properties of the call sequences (checked under Spec) *)

\* The step is a call of IndexNewBlock.
PersistStep == last'.op = "IndexNewBlock" /\ nops'.persist = nops.persist + 1

\* C1: a call of IndexNewBlock that returns an error leaves the store as it
\* was before the call: no write of the call is kept, and a failure marker
\* that existed before the call still exists.
C1_Atomicity ==
  [][(PersistStep /\ last'.err # NoErr) => store' = store]_vars

\* C1 witness: the call failed at its last statement, after the marker of
\* its block was deleted and every other row was written, and the store
\* holds the marker.
C1_Witness ==
  /\ last.op = "IndexNewBlock" /\ last.err # NoErr
  /\ last.fault = [stage |-> "attributes", tx |-> 1]
  /\ last.marker
  /\ \E r \in store.failed_blocks :
       r.height = last.height /\ r.blockchain_id = last.chain

\* C2: a successful call of IndexNewBlock right after a successful call
\* with the same chain, height, time and transactions leaves the store
\* unchanged.
C2_Idempotence ==
  [][(/\ PersistStep /\ last'.err = NoErr
      /\ last.op = "IndexNewBlock" /\ last.err = NoErr
      /\ last'.chain = last.chain /\ last'.height = last.height
      /\ last'.time = last.time /\ last'.txs = last.txs)
     => store' = store]_vars

\* C2 witness: the second of two successive successful calls with the same
\* input, for a block with a transaction.
C2_Witness ==
  /\ last.op = "IndexNewBlock" /\ last.err = NoErr
  /\ last.repeated /\ last.txs # <<>>
  /\ store.message_event_attributes # {}

\* C3: after a successful call of IndexNewBlock for a chain and a height
\* the store holds no failed-block marker of that chain and height, and
\* GetFailedBlocks of the chain does not return the height.
C3_MarkerCleared ==
  (last.op = "IndexNewBlock" /\ last.err = NoErr) =>
    /\ ~\E r \in store.failed_blocks :
          r.height = last.height /\ r.blockchain_id = last.chain
    /\ LET rows == GetFailedBlocks(store, last.chain, FALSE)
       IN \A i \in 1..Len(rows) : rows[i].height # last.height

\* C3 witness: the block was marked failed, another call came in between,
\* and the successful call found the marker.
C3_Witness ==
  /\ last.op = "IndexNewBlock" /\ last.err = NoErr /\ last.marker
  /\ nops.mark = 1 /\ TotalOps = MaxOps

\* C9: when a successful call of IndexNewBlock carries a transaction whose
\* hash is stored already, the stored row keeps its key and its hash (every
\* column but code, block_id and signer_address_id), those three columns
\* take the values of the call, and no second row with the hash appears;
\* the rows of other hashes are left alone.
C9_TxRefreshScope ==
  [][(PersistStep /\ last'.err = NoErr) =>
      LET txs == last'.txs
          unique == UniqueTxes(txs)
      IN \A old \in store.txes :
           IF old.hash \in DOMAIN unique
           THEN \E new \in store'.txes :
                  /\ \A c \in DOMAIN old \ {"code", "block_id", "signer_address_id"} :
                       new[c] = old[c]
                  /\ new.code = txs[unique[old.hash]].Tx.Code
                  /\ new.signer_address_id = txs[unique[old.hash]].Tx.SignerAddressID
                  /\ \E b \in store'.blocks :
                       /\ b.height = last'.height /\ b.chain_id = last'.chain
                       /\ new.block_id = b.id
                  /\ \A q \in store'.txes : q.hash = old.hash => q = new
           ELSE old \in store'.txes]_vars

\* C9 witness: the call found a row with the hash of its transaction and
\* another code, at another block, and the row now has the code of the call.
C9_Witness ==
  /\ last.op = "IndexNewBlock" /\ last.err = NoErr /\ last.conflict
  /\ Cardinality(store.blocks) = 2
  /\ \E r \in store.txes :
       r.hash = last.txs[1].Tx.Hash /\ r.code = last.txs[1].Tx.Code

\* C10 as stated: after a successful call of UpsertFailedBlock or
\* UpsertFailedEventBlock for a chain and a height the table of the call
\* holds exactly one marker of that chain and height, also when another
\* chain has a marker at the height.
C10_AsStated ==
  (last.op \in {"UpsertFailedBlock", "UpsertFailedEventBlock"} /\ last.err = NoErr) =>
    LET markers == IF last.op = "UpsertFailedBlock"
                   THEN store.failed_blocks ELSE store.failed_event_blocks
    IN \E c \in store.chains :
         /\ c.chain_id = last.chainID
         /\ Cardinality({r \in markers :
                           r.height = last.height /\ r.blockchain_id = c.id}) = 1

\* C13 as stated: after any sequence of GetDBChainID, UpsertFailedBlock and
\* UpsertFailedEventBlock calls the store holds at most one chain row per
\* chainID, a call into which no store failure is injected does not fail,
\* and GetDBChainID returns the key of the one row of its chainID.
C13_AsStated ==
  /\ \A r, q \in store.chains : r.chain_id = q.chain_id => r = q
  /\ (last.op \in {"UpsertFailedBlock", "UpsertFailedEventBlock"}
      /\ last.fault = "none") => last.err = NoErr
  /\ (last.op = "GetDBChainID" /\ last.err = NoErr) =>
       \E r \in store.chains : r.chain_id = last.chainID /\ r.id = last.ID

\* C15 as stated: a call whose store query fails reports the failure to
\* its caller: GetDBChainID, UpsertFailedBlock and UpsertFailedEventBlock
\* return an error, and GetFailedBlocks does not return what a successful
\* call returns for a chain without markers, the empty list.
C15_AsStated ==
  /\ (last.op = "GetDBChainID" /\ last.ID = 0) => last.err # NoErr
  /\ (last.op \in {"UpsertFailedBlock", "UpsertFailedEventBlock"}
      /\ last.fault # "none") => last.err # NoErr
  /\ (last.op = "GetFailedBlocks" /\ last.fail) =>
       last.rows # GetFailedBlocks(EmptyStore, last.chain, FALSE)

\* C16 as stated: a successful GetFailedBlocks(chain) returns exactly the
\* heights whose marker for that chain is in the store (marked and not
\* persisted since), in strictly ascending order, and never a marker of
\* another chain.
C16_AsStated ==
  (last.op = "GetFailedBlocks" /\ ~last.fail) =>
    /\ {last.rows[i].height : i \in 1..Len(last.rows)} =
         {r.height : r \in {m \in store.failed_blocks :
                              m.blockchain_id = last.chain}}
    /\ \A i \in 1..Len(last.rows) : last.rows[i].blockchain_id = last.chain
    /\ \A i, j \in 1..Len(last.rows) :
         i < j => last.rows[i].height < last.rows[j].height

\* The Block rows of the chain at the height.
BlockRows(db, dbChainID, blockHeight) ==
  {r \in db.blocks : r.chain_id = dbChainID /\ r.height = blockHeight}

\* C19 as stated: after a successful call of IndexNewBlock the store holds
\* exactly one Block row for (chain, height), with tx_indexed true and the
\* timestamp of the call; if a row for (chain, height) existed before the
\* call, it is that row, with its key and its block_events_indexed flag.
C19_AsStated ==
  [][(PersistStep /\ last'.err = NoErr) =>
       LET old == BlockRows(store, last'.chain, last'.height)
           new == BlockRows(store', last'.chain, last'.height)
       IN /\ Cardinality(new) = 1
          /\ \A n \in new :
               /\ n.tx_indexed /\ n.time_stamp = last'.time
               /\ \A o \in old :
                    n.id = o.id
                    /\ n.block_events_indexed = o.block_events_indexed]_vars

\* C21: a call of IndexNewBlock for a chain and a height, whether it
\* returns nil or an error, adds no failed-block marker and removes none
\* but the marker of that chain and height (and that one only when it
\* returns nil), and leaves the failed-event-block markers as they were.
C21_MarkerFrame ==
  [][PersistStep =>
       /\ store'.failed_event_blocks = store.failed_event_blocks
       /\ store'.failed_blocks \subseteq store.failed_blocks
       /\ \A r \in store.failed_blocks \ store'.failed_blocks :
            /\ r.height = last'.height /\ r.blockchain_id = last'.chain
            /\ last'.err = NoErr]_vars

\* C21 witness: two heights of the chain were marked failed, and a
\* successful call for one of them found its marker and left the marker of
\* the other height in the store.
C21_Witness ==
  /\ last.op = "IndexNewBlock" /\ last.err = NoErr /\ last.marker
  /\ nops.mark = 2
  /\ Cardinality(store.failed_blocks) = 1
  /\ \A r \in store.failed_blocks :
       r.height # last.height /\ r.blockchain_id = last.chain

----------------------------------------------------------------------------
(* Properties of one call over decoded blocks (checked under PipeSpec) *)

ReferenceMaps ==
  {"UniqueMessageTypes", "UniqueMessageEventTypes", "UniqueMessageAttributeKeys"}

\* Every reference map of every transaction is keyed by the natural key of
\* its value.
NaturalKeyed(txs) ==
  \A i \in 1..Len(txs) : \A f \in ReferenceMaps :
    \A k \in DOMAIN txs[i][f] : txs[i][f][k] = k

IntroducedKeys(txs, f) == UNION {DOMAIN txs[i][f] : i \in 1..Len(txs)}

\* The row is the one row of the reference table with the value k.
IsTheRowOf(rows, col, k, id) ==
  /\ \E r \in rows : r[col] = k /\ r.id = id
  /\ Cardinality({r \in rows : r[col] = k}) = 1

\* The transactions after the i-th that carry its hash: their messages are
\* written to the same Tx row, after those of the i-th.
LaterOccurrences(txs, i) ==
  {i2 \in (i + 1)..Len(txs) : txs[i2].Tx.Hash = txs[i].Tx.Hash}

\* A later occurrence of the transaction rewrites the row of message j, of
\* its event e, of the attribute a of that event.
MessageRewritten(txs, i, j) ==
  \E i2 \in LaterOccurrences(txs, i) : \E j2 \in 1..Len(txs[i2].Messages) :
    txs[i2].Messages[j2].MessageIndex = txs[i].Messages[j].MessageIndex

EventRewritten(txs, i, j, e) ==
  \E i2 \in LaterOccurrences(txs, i) : \E j2 \in 1..Len(txs[i2].Messages) :
    /\ txs[i2].Messages[j2].MessageIndex = txs[i].Messages[j].MessageIndex
    /\ \E e2 \in 1..Len(txs[i2].Messages[j2].MessageEvents) :
         txs[i2].Messages[j2].MessageEvents[e2].Index
           = txs[i].Messages[j].MessageEvents[e].Index

AttributeRewritten(txs, i, j, e, a) ==
  \E i2 \in LaterOccurrences(txs, i) : \E j2 \in 1..Len(txs[i2].Messages) :
    /\ txs[i2].Messages[j2].MessageIndex = txs[i].Messages[j].MessageIndex
    /\ \E e2 \in 1..Len(txs[i2].Messages[j2].MessageEvents) :
         /\ txs[i2].Messages[j2].MessageEvents[e2].Index
              = txs[i].Messages[j].MessageEvents[e].Index
         /\ \E a2 \in 1..Len(txs[i2].Messages[j2].MessageEvents[e2].Attributes) :
              txs[i2].Messages[j2].MessageEvents[e2].Attributes[a2].Index
                = txs[i].Messages[j].MessageEvents[e].Attributes[a].Index

\* The attributes of event ev of transaction i, message j, stored under
\* the event row evRow, reference the rows of their keys.
AttributesReferenceTheirKeys(txs, i, j, e, evRow) ==
  LET attrs == txs[i].Messages[j].MessageEvents[e].Attributes
  IN \A a \in 1..Len(attrs) :
       \E r \in store.message_event_attributes :
         /\ r.message_event_id = evRow.id /\ r.index = attrs[a].Index
         /\ AttributeRewritten(txs, i, j, e, a)
            \/ IsTheRowOf(store.message_event_attribute_keys, "key",
                          attrs[a].Key, r.message_event_attribute_key_id)

EventsReferenceTheirTypes(txs, i, j, msgRow) ==
  LET evs == txs[i].Messages[j].MessageEvents
  IN \A e \in 1..Len(evs) :
       \E r \in store.message_events :
         /\ r.message_id = msgRow.id /\ r.index = evs[e].Index
         /\ EventRewritten(txs, i, j, e)
            \/ IsTheRowOf(store.message_event_types, "type",
                          evs[e].Type, r.message_event_type_id)
         /\ AttributesReferenceTheirKeys(txs, i, j, e, r)

MessagesReferenceTheirTypes(txs) ==
  \A i \in 1..Len(txs) : \A j \in 1..Len(txs[i].Messages) :
    \E t \in store.txes : \E r \in store.messages :
      /\ t.hash = txs[i].Tx.Hash
      /\ r.tx_id = t.id /\ r.message_index = txs[i].Messages[j].MessageIndex
      /\ MessageRewritten(txs, i, j)
         \/ IsTheRowOf(store.message_types, "message_type",
                       txs[i].Messages[j].MessageType, r.message_type_id)
      /\ EventsReferenceTheirTypes(txs, i, j, r)

\* C4: after a successful call of IndexNewBlock whose reference maps are
\* keyed by natural key, every key a transaction of the block introduces
\* has exactly one row in the table of its kind, and every message, event
\* and attribute of the block is stored with the key of the row of the
\* type or key it names, whichever transaction of the block introduced it
\* (of several messages written to one row the last one counts).
C4_DedupCorrectness ==
  (last.op = "IndexNewBlock" /\ last.err = NoErr /\ NaturalKeyed(last.txs)) =>
    /\ \A k \in IntroducedKeys(last.txs, "UniqueMessageTypes") :
         Cardinality({r \in store.message_types : r.message_type = k}) = 1
    /\ \A k \in IntroducedKeys(last.txs, "UniqueMessageEventTypes") :
         Cardinality({r \in store.message_event_types : r.type = k}) = 1
    /\ \A k \in IntroducedKeys(last.txs, "UniqueMessageAttributeKeys") :
         Cardinality({r \in store.message_event_attribute_keys : r.key = k}) = 1
    /\ MessagesReferenceTheirTypes(last.txs)

\* C4 witness: the first transaction introduces nothing and its message
\* names a message type, an event type and an attribute key that only the
\* second transaction, of another hash, introduces and the store lacked.
C4_Witness ==
  /\ last.op = "IndexNewBlock" /\ last.err = NoErr /\ NaturalKeyed(last.txs)
  /\ Len(last.txs) = 2 /\ last.txs[1].Tx.Hash # last.txs[2].Tx.Hash
  /\ \A f \in ReferenceMaps : DOMAIN last.txs[1][f] = {}
  /\ last.txs[1].Messages = <<[MessageType |-> "vote", MessageIndex |-> 0,
        MessageEvents |-> <<[Type |-> "mint", Index |-> 0,
          Attributes |-> <<[Key |-> "sender", Index |-> 0,
                            Value |-> AttrValues[last.txs[1].Tx.Code + 1]]>>]>>]>>
  /\ DOMAIN last.txs[2].UniqueMessageTypes = {"vote"}
  /\ Cardinality(store.message_types) = 2
  /\ Cardinality(store.message_event_attributes) = 3

\* The keys the messages, events and attributes of the block name, by the
\* reference map that has to resolve them.
NamedKeys(txs, f) ==
  UNION {CASE f = "UniqueMessageTypes" -> UsedMessageTypes(txs[i].Messages)
           [] f = "UniqueMessageEventTypes" -> UsedEventTypes(txs[i].Messages)
           [] f = "UniqueMessageAttributeKeys" -> UsedAttributeKeys(txs[i].Messages) :
         i \in 1..Len(txs)}

\* The keys and the natural values of the reference maps of the block.
OfferedKeys(txs, f) ==
  IntroducedKeys(txs, f)
  \cup UNION {{txs[i][f][k] : k \in DOMAIN txs[i][f]} : i \in 1..Len(txs)}

\* The block names a reference key that no map of the block holds.
NamesAbsentKey(txs) ==
  \E f \in ReferenceMaps : NamedKeys(txs, f) \ OfferedKeys(txs, f) # {}

\* No stored message, event or attribute has the zero value as the key of
\* its message type, event type or attribute key.
NoZeroReference(db) ==
  /\ \A r \in db.messages : r.message_type_id # 0
  /\ \A r \in db.message_events : r.message_event_type_id # 0
  /\ \A r \in db.message_event_attributes : r.message_event_attribute_key_id # 0

\* C14: a call of IndexNewBlock for a block that names a reference key
\* absent from every reference map of the block returns an error and
\* leaves the store as it was, and no call stores a message, event or
\* attribute whose reference key is the zero value.
C14_DecoderInconsistency ==
  [][PersistStep =>
       /\ NoZeroReference(store')
       /\ (last'.fault = NoFault /\ NamesAbsentKey(last'.txs)) =>
            (last'.err # NoErr /\ store' = store)]_vars

\* C14 witness: the first transaction is stored with its message before
\* the message of the second, which names a type that no map holds, is
\* rejected; nothing of the call is in the store.
C14_Witness ==
  /\ last.op = "IndexNewBlock" /\ last.err = "fk_violation"
  /\ Len(last.txs) = 2 /\ last.txs[1].Tx.Hash # last.txs[2].Tx.Hash
  /\ NaturalKeyed(last.txs)
  /\ DOMAIN last.txs[1].UniqueMessageTypes = {"send"}
  /\ Len(last.txs[1].Messages) = 1
  /\ DOMAIN last.txs[2].UniqueMessageTypes = {}
  /\ Len(last.txs[2].Messages) = 1
  /\ last.txs[2].Messages[1].MessageType = "vote"
  /\ store.blocks = {} /\ store.txes = {} /\ store.messages = {}

\* The occurrences of the hash of the i-th transaction in the input.
Occurrences(txs, i) == {i2 \in 1..Len(txs) : txs[i2].Tx.Hash = txs[i].Tx.Hash}

\* C18: after a successful call, for every transaction of the input the
\* store holds exactly one Tx row with its hash; that row carries the key
\* of the block of the call and the code and signer of the last
\* transaction of the input with that hash; and every message of every
\* transaction with that hash has a Message row at its index under that
\* one Tx row.
C18_TxDedup ==
  (last.op = "IndexNewBlock" /\ last.err = NoErr) =>
    \A i \in 1..Len(last.txs) :
      LET rows == {r \in store.txes : r.hash = last.txs[i].Tx.Hash}
          final == last.txs[MaxOf(Occurrences(last.txs, i))].Tx
      IN /\ Cardinality(rows) = 1
         /\ \A r \in rows :
              /\ r.code = final.Code
              /\ r.signer_address_id = final.SignerAddressID
              /\ \E b \in store.blocks :
                   /\ b.id = r.block_id
                   /\ b.height = last.height /\ b.chain_id = last.chain
              /\ \A j \in 1..Len(last.txs[i].Messages) :
                   \E m \in store.messages :
                     /\ m.tx_id = r.id
                     /\ m.message_index = last.txs[i].Messages[j].MessageIndex

\* C18 witness: the block carries the stored hash twice, first with code 0
\* and two messages, then with code 1 and one message; the one Tx row has
\* code 1 and both message rows hang off it.
C18_Witness ==
  /\ last.op = "IndexNewBlock" /\ last.err = NoErr /\ last.conflict
  /\ Len(last.txs) = 2
  /\ last.txs[1].Tx.Hash = "h1" /\ last.txs[2].Tx.Hash = "h1"
  /\ last.txs[1].Tx.Code = 0 /\ last.txs[2].Tx.Code = 1
  /\ Len(last.txs[1].Messages) = 2 /\ Len(last.txs[2].Messages) = 1
  /\ Cardinality(store.txes) = 1
  /\ \A r \in store.txes : r.code = 1
  /\ Cardinality(store.messages) = 2

----------------------------------------------------------------------------
(* Properties of the gap tracker (checked under GapSpec) *)

\* The heights of a chain that count as transaction-indexed / event-indexed.
TxIndexedHeights(c) ==
  {r.height : r \in {q \in store.blocks :
      q.chain_id = c /\ q.tx_indexed /\ q.time_stamp # 0}}

EventIndexedHeights(c) ==
  {r.height : r \in {q \in store.blocks :
      q.chain_id = c /\ q.block_events_indexed /\ q.time_stamp # 0}}

SentinelRows == {r \in store.blocks : r.time_stamp = 0}

IsFirstMissingCall ==
  last.op = "GetFirstMissingBlockInRange" /\ ~last.failMax /\ ~last.failGap

\* The range the code scans: its end is highestIndexed + 1 whenever
\* highestIndexed is above start, and the caller's end otherwise.
ScannedRange ==
  LET hi == MaxOf(TxIndexedHeights(last.chainID))
  IN last.start..(IF hi > last.start THEN hi + 1 ELSE last.end)

\* The range the specification describes: the caller's end, extended to
\* highestIndexed + 1 when it is below that.
SpecifiedRange ==
  LET hi == MaxOf(TxIndexedHeights(last.chainID))
  IN last.start..(IF TxIndexedHeights(last.chainID) # {} /\ last.end < hi + 1
                  THEN hi + 1 ELSE last.end)

IsSmallestUnindexedOf(h, range) ==
  /\ h \in range
  /\ h \notin TxIndexedHeights(last.chainID)
  /\ \A g \in range : g < h => g \in TxIndexedHeights(last.chainID)

\* C5 (as stated): firstMissing scans [start, end] with end extended to
\* highestIndexed+1 when the caller's end is below it, and returns the
\* smallest height of that range without an indexed block row.
C5_AsStated ==
  (IsFirstMissingCall /\ SpecifiedRange \ TxIndexedHeights(last.chainID) # {})
    => IsSmallestUnindexedOf(last.res.height, SpecifiedRange)

\* C5 (amended): firstMissing scans [start, end'] where end' is
\* highestIndexed+1 whenever highestIndexed > start and the caller's end
\* otherwise; it returns the smallest height of that range without an
\* indexed block row of the chain; for indexed heights {10,11,12,15},
\* firstMissing(chain, 10, 20) is 13.
C5_FirstMissing ==
  /\ (IsFirstMissingCall /\ ScannedRange \ TxIndexedHeights(last.chainID) # {})
       => /\ last.res.status = "ok"
          /\ IsSmallestUnindexedOf(last.res.height, ScannedRange)
  /\ (/\ IsFirstMissingCall
      /\ TxIndexedHeights(last.chainID) = {10, 11, 12, 15}
      /\ last.start = 10 /\ last.end = 20)
       => last.res.height = 13

C5_Witness ==
  /\ IsFirstMissingCall
  /\ TxIndexedHeights(last.chainID) = {10, 11, 12, 15}
  /\ last.start = 10 /\ last.end = 20
  /\ last.res.height = 13

\* C6: when every height of the scanned range is indexed, firstMissing
\* returns start and does not fail; a failure of the gap query other than
\* "no rows" returns no height: the call ends as unrecoverable.
C6_Fallback ==
  last.op = "GetFirstMissingBlockInRange" =>
    /\ last.failGap => last.res.status = "fatal"
    /\ ~last.failGap => last.res.status = "ok"
    /\ (IsFirstMissingCall /\ ScannedRange \subseteq TxIndexedHeights(last.chainID))
         => last.res = [status |-> "ok", height |-> last.start]

C6_Witness ==
  /\ IsFirstMissingCall
  /\ ScannedRange # {}
  /\ ScannedRange \subseteq TxIndexedHeights(last.chainID)
  /\ last.res = [status |-> "ok", height |-> last.start]

\* C7: highestIndexed returns the row of the chain with the maximum height
\* among those with txIndexed=true and a non-sentinel timestamp, contiguous
\* or not ({10,11,12,15} gives 15), whatever rows other chains have, and
\* the zero-valued block when the chain has no such row.
C7_HighestIndexed ==
  (last.op = "GetHighestIndexedBlock" /\ ~last.fail) =>
    IF TxIndexedHeights(last.chainID) = {}
    THEN last.block = ZeroBlock
    ELSE /\ last.block \in store.blocks
         /\ last.block.chain_id = last.chainID
         /\ last.block.tx_indexed /\ last.block.time_stamp # 0
         /\ \A h \in TxIndexedHeights(last.chainID) : h <= last.block.height
         /\ (TxIndexedHeights(last.chainID) = {10, 11, 12, 15}
               => last.block.height = 15)

C7_Witness ==
  /\ last.op = "GetHighestIndexedBlock" /\ ~last.fail
  /\ TxIndexedHeights(last.chainID) = {10, 11, 12, 15}
  /\ \E r \in store.blocks : r.chain_id # last.chainID
  /\ last.block.height = 15

\* C8: a block row with the sentinel timestamp is never returned by
\* highestIndexed or highestEventIndexed and never makes
\* eventsAlreadyIndexed true, whatever its flags; eventsAlreadyIndexed is
\* true exactly when the row of (chain, height) has eventsIndexed=true and
\* a non-sentinel timestamp.
C8_SentinelExclusion ==
  /\ last.op = "GetHighestIndexedBlock" => last.block \notin SentinelRows
  /\ last.op = "GetHighestEventIndexedBlock" =>
       /\ last.res.block \notin SentinelRows
       /\ ~last.fail =>
            IF EventIndexedHeights(last.chainID) = {}
            THEN last.res.block = ZeroBlock
            ELSE /\ last.res.block \in store.blocks
                 /\ last.res.block.chain_id = last.chainID
                 /\ last.res.block.block_events_indexed
                 /\ \A h \in EventIndexedHeights(last.chainID) :
                      h <= last.res.block.height
  /\ (last.op = "BlockEventsAlreadyIndexed" /\ ~last.fail) =>
       (last.res.exists <=> last.height \in EventIndexedHeights(last.chainID))

C8_Witness ==
  /\ last.op = "BlockEventsAlreadyIndexed" /\ ~last.fail
  /\ \E r \in SentinelRows :
       /\ r.chain_id = last.chainID /\ r.height = last.height
       /\ r.block_events_indexed /\ r.tx_indexed
  /\ last.res.exists = FALSE

----------------------------------------------------------------------------
(* Properties of the call sequences with the denomination upserts (checked
   under AppendSpec) *)

\* The tables whose rows stay, with the columns of their natural key.
NaturalKeyColumns ==
  [chains |-> {"chain_id"}, blocks |-> {"chain_id", "height"},
   txes |-> {"hash"}, message_types |-> {"message_type"},
   message_event_types |-> {"type"}, message_event_attribute_keys |-> {"key"},
   messages |-> {}, message_events |-> {}, message_event_attributes |-> {}]

\* Every row of the table before the step is in the table after it, under
\* its key and with its natural key.
RowsStay(before, after, cols) ==
  \A r \in before : \E q \in after :
    q.id = r.id /\ Project(q, cols) = Project(r, cols)

\* A natural key that had a row before the step has no row under another
\* key after it.
KeysStay(before, after, cols) ==
  cols # {} =>
    \A r \in before, q \in after :
      Project(q, cols) = Project(r, cols) => q.id = r.id

\* C20: in every step of every sequence of calls of GetDBChainID,
\* UpsertFailedBlock, UpsertFailedEventBlock, IndexNewBlock, GetFailedBlocks,
\* UpsertDenoms and UpsertIBCDenoms, each row of chains, blocks, txes, the
\* three reference tables, messages, message_events and
\* message_event_attributes is still stored afterwards under its key, and
\* the key of a chain_id, of a (chain, height), of a hash and of a
\* reference string is the key it had before.
C20_AppendOnly ==
  [][\A t \in DOMAIN NaturalKeyColumns :
       /\ RowsStay(store[t], store'[t], NaturalKeyColumns[t])
       /\ KeysStay(store[t], store'[t], NaturalKeyColumns[t])]_vars

\* C20 witness: a marked height was persisted with a transaction that was
\* stored under another block: the marker is gone, both blocks are stored
\* and the one Tx row now belongs to the block of the call.
C20_Witness ==
  /\ last.op = "IndexNewBlock" /\ last.err = NoErr
  /\ last.marker /\ last.conflict
  /\ store.failed_blocks = {}
  /\ Cardinality(store.blocks) = 2 /\ Cardinality(store.txes) = 1
  /\ \A r \in store.txes : \E b \in store.blocks :
       b.id = r.block_id /\ b.height = last.height

----------------------------------------------------------------------------
(* Properties of concurrent calls (checked under ConcSpec) *)

Ended(ws) == {w \in DOMAIN ws : ws[w].status \in {"committed", "aborted"}}

\* The two workers ran IndexNewBlock for the same chain and height.
SameBlock(ws) ==
  /\ DOMAIN ws = Workers
  /\ \A w, o \in Workers :
       /\ ws[w].in.blockHeight = ws[o].in.blockHeight
       /\ ws[w].in.dbChainID = ws[o].in.dbChainID

\* C11 as stated: when two workers have run IndexNewBlock for the same
\* chain and height, neither call has failed with a uniqueness error of
\* the store; and when both have committed, the store holds one Block row
\* for the chain and height, with the time of one of the two calls, and
\* for every hash of the two calls one Tx row under that block, with the
\* code one of the two calls gave for the hash.
C11_AsStated ==
  (SameBlock(workers) /\ Ended(workers) = Workers) =>
    /\ \A w \in Workers : workers[w].ctx.err # "unique_violation"
    /\ (\A w \in Workers : workers[w].status = "committed") =>
         LET in1 == workers[1].in
             blocks == BlockRows(store, in1.dbChainID, in1.blockHeight)
             given == UNION {{workers[w].in.txs[i].Tx :
                                i \in 1..Len(workers[w].in.txs)} : w \in Workers}
         IN /\ Cardinality(blocks) = 1
            /\ \A b \in blocks :
                 /\ b.tx_indexed
                 /\ b.time_stamp \in {workers[w].in.blockTime : w \in Workers}
            /\ \A g \in given :
                 /\ Cardinality({r \in store.txes : r.hash = g.Hash}) = 1
                 /\ \A r \in store.txes :
                      r.hash = g.Hash =>
                        /\ r.code \in {q.Code : q \in {x \in given : x.Hash = g.Hash}}
                        /\ \E b \in blocks : b.id = r.block_id

ChildBatch(ctx, in, st) ==
  CASE st.stage = "txes" -> TxesSlice(in.txs, ctx.blockID, in.rev)
    [] st.stage = "messages" ->
         MessagesSlice(in.txs[st.tx], ctx.txIDs[in.txs[st.tx].Tx.Hash], ctx.mt)
    [] st.stage = "events" ->
         Flatten(MessagesEventsPerMessage(in.txs[st.tx], ctx.mids, ctx.et))
    [] st.stage = "attributes" ->
         MessagesEventsAttributesSlice(in.txs[st.tx], ctx.eids, ctx.ak)
    [] OTHER -> <<>>

\* The column of a child row that holds the key of its owner, and the
\* table of the owner.
OwnerColumn ==
  [txes |-> <<"block_id", "blocks">>,
   messages |-> <<"tx_id", "txes">>,
   events |-> <<"message_id", "messages">>,
   attributes |-> <<"message_event_id", "message_events">>]

\* The column of a child row that holds the key of a reference row, and
\* the reference table.
ReferenceColumn ==
  [messages |-> <<"message_type_id", "message_types">>,
   events |-> <<"message_event_type_id", "message_event_types">>,
   attributes |-> <<"message_event_attribute_key_id",
                    "message_event_attribute_keys">>]

\* Every row of the batch holds, in the column, the key of a row of the
\* table.
Resolved(batch, column, rows) ==
  \A i \in 1..Len(batch) :
    batch[i][column[1]] # 0
    /\ \E p \in rows[column[2]] : p.id = batch[i][column[1]]

\* The step is statement k of the running call w.
StatementStep(w) ==
  /\ w \in Running(workers) /\ w \in Running(workers')
  /\ workers'[w].k = workers[w].k + 1

----------------------------------------------------------------------------
(* Properties of concurrent calls sharing reference data (SharedSpec)     *)

\* The row of a table with a surrogate key.
ByID(rows, id) == CHOOSE r \in rows : r.id = id

\* The store with every surrogate key replaced by what it stands for: a
\* block by chain and height, a transaction by its hash, a message by its
\* transaction and index, an event by its message and index, a reference
\* row by its value.
NaturalStore(db) ==
  LET blockKey(id) == LET b == ByID(db.blocks, id) IN <<b.chain_id, b.height>>
      txKey(id) == ByID(db.txes, id).hash
      messageKey(id) ==
        LET m == ByID(db.messages, id) IN <<txKey(m.tx_id), m.message_index>>
      eventKey(id) ==
        LET e == ByID(db.message_events, id)
        IN <<messageKey(e.message_id), e.index>>
  IN [chains |-> db.chains,
      failed_blocks |-> db.failed_blocks,
      failed_event_blocks |-> db.failed_event_blocks,
      blocks |-> {[b EXCEPT !.id = 0] : b \in db.blocks},
      txes |-> {[hash |-> t.hash, code |-> t.code, block |-> blockKey(t.block_id)] :
                  t \in db.txes},
      message_types |-> {r.message_type : r \in db.message_types},
      message_event_types |-> {r.type : r \in db.message_event_types},
      message_event_attribute_keys |->
        {r.key : r \in db.message_event_attribute_keys},
      messages |->
        {[key |-> messageKey(m.id),
          type |-> ByID(db.message_types, m.message_type_id).message_type] :
           m \in db.messages},
      message_events |->
        {[key |-> eventKey(e.id),
          type |-> ByID(db.message_event_types, e.message_event_type_id).type] :
           e \in db.message_events},
      message_event_attributes |->
        {[event |-> eventKey(a.message_event_id), index |-> a.index,
          value |-> a.value,
          key |-> ByID(db.message_event_attribute_keys,
                       a.message_event_attribute_key_id).key] :
           a \in db.message_event_attributes}]

\* The store after the call of worker w and then the call of worker o, run
\* one after the other from the store db.
Serial(db, ws, w, o) ==
  LET call(d, in) == IndexNewBlock(d, in.blockHeight, in.blockTime, in.txs,
                                   in.dbChainID, in.rev, in.fault).db
  IN call(call(db, ws[w].in), ws[o].in)

\* The message types both calls introduce.
SharedKeys(ws) ==
  LET types(w) == UNION {{ws[w].in.txs[i].UniqueMessageTypes[k] :
                            k \in DOMAIN ws[w].in.txs[i].UniqueMessageTypes} :
                           i \in 1..Len(ws[w].in.txs)}
  IN types(1) \cap types(2)

\* The two workers ran IndexNewBlock for different blocks whose
\* transactions have a message type in common, and both calls have ended.
SharedRun(ws) ==
  /\ DOMAIN ws = Workers
  /\ Ended(ws) = Workers
  /\ ~SameBlock(ws)
  /\ SharedKeys(ws) # {}

\* C22 as stated: when two workers have concurrently run IndexNewBlock for
\* two different blocks whose transactions introduce the same reference
\* key, both calls have committed, the store holds exactly one reference
\* row for the key, every message, event and attribute row references a
\* row of its reference table, and the store is, up to the surrogate keys,
\* the store after the two calls run one after the other in some order
\* from a store the calls can start from.
C22_AsStated ==
  SharedRun(workers) =>
    /\ \A w \in Workers : workers[w].status = "committed"
    /\ \A k \in SharedKeys(workers) :
         Cardinality({r \in store.message_types : r.message_type = k}) = 1
    /\ \A m \in store.messages :
         \E r \in store.message_types : r.id = m.message_type_id
    /\ \A e \in store.message_events :
         \E r \in store.message_event_types : r.id = e.message_event_type_id
    /\ \A a \in store.message_event_attributes :
         \E r \in store.message_event_attribute_keys :
           r.id = a.message_event_attribute_key_id
    /\ \E s0 \in PipeStores, w \in Workers :
         NaturalStore(store) = NaturalStore(Serial(s0, workers, w, 3 - w))

====
